---- MODULE Spec2Model ----
(***************************************************************************)
(* A model of the ALACS engine of src/python/alacs/__init__.py: the UTF8   *)
(* line buffer and its normalize, the Indent chain, and the Memory engine  *)
(* with its four public operations decode, encode, python (to_plain) and   *)
(* file (from_plain).                                                      *)
(*                                                                         *)
(* Bytes are numbers, byte strings are sequences of numbers, Python's      *)
(* 0-based positions are kept (At, Slice).  An optional value (None or an  *)
(* object) is the empty sequence or a one-element sequence.  The           *)
(* informational starting_line fields are not modelled: no code reads them.*)
(***************************************************************************)
EXTENDS Integers, Sequences, FiniteSets, TLC

VARIABLES
    scratch,      \* Memory._scratch
    errors,       \* Memory._errors
    indent,       \* len(Memory._indent): the depth of the current Indent node
    keys,         \* the _key cell of every allocated node of the Indent chain
    count,        \* Memory._count
    write,        \* Memory._write (the bytes written so far)
    parse,        \* Memory._parse
    next,         \* Memory._next
    line,         \* Memory._line (its bytes)
    lineIsEmpty,  \* TRUE iff Memory._line is the Memory.empty object itself
    tabs,         \* Memory._tabs
    assign,       \* Memory._assign
    pc,           \* "idle", or the public operation that is running
    stack,        \* decode: the active _readDict/_readList calls, innermost last
    arg,          \* the argument of the running (or last) public operation
    outcome,      \* how the last public operation ended
    branch,       \* the path the last step took through the code
    calls,        \* number of public operations started on this engine
    history       \* the public operations that ended: argument and outcome

vars == <<scratch, errors, indent, keys, count, write, parse, next, line,
          lineIsEmpty, tabs, assign, pc, stack, arg, outcome, branch, calls,
          history>>

\* ------------------------------------------------------------------ bytes

TAB == 9
NL == 10
BANG == 33
HASH == 35
SLASH == 47
LT == 60
EQ == 61
GT == 62
LBRACKET == 91
RBRACKET == 93
LBRACE == 123
RBRACE == 125

None == <<>>
Some(x) == <<x>>

\* b[i] for a 0-based position i
At(b, i) == b[i + 1]

\* b[lo:hi] for 0 <= lo and 0 <= hi, with Python's clamping
Slice(b, lo, hi) ==
    LET h == IF hi > Len(b) THEN Len(b) ELSE hi
    IN  IF lo >= h THEN <<>> ELSE SubSeq(b, lo + 1, h)

\* b[lo:]
SliceFrom(b, lo) == Slice(b, lo, Len(b))

\* Indent._bytes of the node at depth n
Tabs(n) == [i \in 1..n |-> TAB]

Contains(b, byte) == \E i \in 1..Len(b) : b[i] = byte

RECURSIVE Reverse(_)
Reverse(s) == IF s = <<>> THEN <<>> ELSE Append(Reverse(Tail(s)), Head(s))

\* number of newline bytes in b
RECURSIVE Newlines(_)
Newlines(b) ==
    IF b = <<>> THEN 0 ELSE (IF Head(b) = NL THEN 1 ELSE 0) + Newlines(Tail(b))

\* A join that gives the first entry alone.
JoinFirst(u) == IF u = <<>> THEN <<>> ELSE u[1]

\* bytes(utf8): b"\n".join(self)
RECURSIVE JoinLines(_)
JoinLines(u) ==
    IF u = <<>> THEN <<>>
    ELSE IF Len(u) = 1 THEN u[1]
    ELSE u[1] \o <<NL>> \o JoinLines(Tail(u))

\* ------------------------------------------------------------- UTF8.normalize

\* The backward scan of one chunk (lines 62-74): start runs down from the end,
\* every newline found appends the piece after it to the scratch list.
RECURSIVE ScanChunk(_, _, _, _)
ScanChunk(chunk, start, limit, acc) ==
    IF start < 0 THEN Append(acc, Slice(chunk, 0, limit))
    ELSE IF At(chunk, start) = NL
         THEN ScanChunk(chunk, start - 1, start,
                        Append(acc, Slice(chunk, start + 1, limit)))
         ELSE ScanChunk(chunk, start - 1, limit, acc)

\* A normalize that never splits a chunk.
SplitChunkWhole(chunk) == <<chunk>>

\* A normalize that splits a chunk at its last newline only.
SplitChunkLast(chunk) ==
    IF ~Contains(chunk, NL) THEN <<chunk>>
    ELSE LET last == CHOOSE i \in 1..Len(chunk) :
                        chunk[i] = NL /\ \A j \in (i + 1)..Len(chunk) : chunk[j] # NL
         IN  <<SubSeq(chunk, 1, last - 1), SubSeq(chunk, last + 1, Len(chunk))>>

\* The pieces that replace self[index] (lines 57-77): the chunk itself when it
\* holds no newline, else the scratch list reversed.
SplitChunk(chunk) ==
    IF ~Contains(chunk, NL) THEN <<chunk>>
    ELSE Reverse(ScanChunk(chunk, Len(chunk) - 1, Len(chunk), <<>>))

\* The loop over index = len-1 .. 0, each chunk replaced in place by its pieces.
RECURSIVE NormalizeFrom(_, _)
NormalizeFrom(u, index) ==
    IF index < 0 THEN u
    ELSE NormalizeFrom(
            Slice(u, 0, index) \o SplitChunk(At(u, index)) \o SliceFrom(u, index + 1),
            index - 1)

normalize(u) ==
    IF Len(u) = 1 /\ Len(u[1]) = 0 THEN <<>>
    ELSE NormalizeFrom(u, Len(u) - 1)

\* ------------------------------------------------------------------ Indent

\* Indent.more: the next deeper node, allocated (with a null key) on first use.
\* An existing deeper node keeps its key.
IndentMore(m) ==
    [m EXCEPT !.indent = m.indent + 1,
              !.keys = IF Len(m.keys) < m.indent + 2 THEN Append(m.keys, None)
                       ELSE m.keys]

\* A less() that hands back the node it was called on.
IndentLessStay(m) == m

\* Indent.less below the root raises "indent can't go negative"; the callers
\* below only use it after a matching more, so the depth stays >= 0.
IndentLess(m) == [m EXCEPT !.indent = m.indent - 1]

\* Indent.zero: back to the root, the key of every node of the chain nulled.
IndentZero(m) ==
    [m EXCEPT !.indent = 0, !.keys = [i \in 1..Len(m.keys) |-> None]]

\* self._indent._key = key
SetKey(m, key) == [m EXCEPT !.keys[m.indent + 1] = Some(key)]

StrKey(name) == [t |-> "str", v |-> name]
IntKey(i) == [t |-> "int", v |-> <<i>>]
\* a key that is neither a string nor an index (the tests use Ellipsis)
OtherKey == [t |-> "other", v |-> <<>>]

\* Indent.keys: the root's key bare, a deeper string key as ".key", any other
\* key as "[key]"; a node whose key is null renders as "" and drops what the
\* shallower nodes hold.
RECURSIVE IndentKeys(_, _)
IndentKeys(ks, depth) ==
    LET cell == ks[depth + 1] IN
    IF cell = None THEN <<>>
    ELSE IF depth = 0 THEN <<[sep |-> "", key |-> cell[1]]>>
    ELSE Append(IndentKeys(ks, depth - 1),
                [sep |-> IF cell[1].t = "str" THEN "." ELSE "[]", key |-> cell[1]])

\* ------------------------------------------------------------------ errors

\* One entry of Memory._errors.  _errors_add writes "#<count> " when the count
\* is not zero, then the keys of the indent chain, then the parts.  The parts
\* are kept as the message with its parameters: the key of "duplicate key",
\* the type named by "key is"/"value is", and for "excess indentation" the
\* first line and the number of lines as they survive in the text.
Msg(text) == [text |-> text, key |-> <<>>, first |-> 0, lines |-> 0]
\* "key is <type>", "value is <type>"
TypeMsg(text, type) == [text |-> text, key |-> <<>>, first |-> 0, lines |-> 0,
                        type |-> type]

ErrorsAdd(m, msg) ==
    [m EXCEPT !.errors =
        Append(m.errors, [count |-> m.count,
                          keys |-> IndentKeys(m.keys, m.indent),
                          msg |-> msg])]

\* Memory._error: the message alone when no error is recorded, else the
\* message as headline of the recorded errors.
ErrorText(m, headline) == [headline |-> headline, errors |-> m.errors]

\* ------------------------------------------------------------------ Memory

\* Memory.__init__
FreshEngine ==
    [scratch |-> <<>>, errors |-> <<>>, indent |-> 0, keys |-> <<None>>,
     count |-> 0, write |-> <<>>, parse |-> <<>>, next |-> -1, line |-> <<>>,
     lineIsEmpty |-> TRUE, tabs |-> -1, assign |-> -1]

Engine ==
    [scratch |-> scratch, errors |-> errors, indent |-> indent, keys |-> keys,
     count |-> count, write |-> write, parse |-> parse, next |-> next,
     line |-> line, lineIsEmpty |-> lineIsEmpty, tabs |-> tabs,
     assign |-> assign]

\* the engine as Memory.__init__ leaves it
SetEngineInit ==
    /\ scratch = FreshEngine.scratch
    /\ errors = FreshEngine.errors
    /\ indent = FreshEngine.indent
    /\ keys = FreshEngine.keys
    /\ count = FreshEngine.count
    /\ write = FreshEngine.write
    /\ parse = FreshEngine.parse
    /\ next = FreshEngine.next
    /\ line = FreshEngine.line
    /\ lineIsEmpty = FreshEngine.lineIsEmpty
    /\ tabs = FreshEngine.tabs
    /\ assign = FreshEngine.assign

SetEngine(m) ==
    /\ scratch' = m.scratch
    /\ errors' = m.errors
    /\ indent' = m.indent
    /\ keys' = m.keys
    /\ count' = m.count
    /\ write' = m.write
    /\ parse' = m.parse
    /\ next' = m.next
    /\ line' = m.line
    /\ lineIsEmpty' = m.lineIsEmpty
    /\ tabs' = m.tabs
    /\ assign' = m.assign

\* ------------------------------------------------------------------ _readln

\* first position >= index that is at the limit or holds no tab (lines 551-556)
RECURSIVE SkipTabs(_, _)
SkipTabs(b, index) ==
    IF index >= Len(b) \/ At(b, index) # TAB THEN index
    ELSE SkipTabs(b, index + 1)

\* first position >= index that is at the limit or holds a newline (559-565)
RECURSIVE LineEnd(_, _)
LineEnd(b, index) ==
    IF index >= Len(b) \/ At(b, index) = NL THEN index
    ELSE LineEnd(b, index + 1)

\* position of the first "=" in [index, limit), or -1 (lines 560-561)
RECURSIVE FirstAssign(_, _, _)
FirstAssign(b, index, limit) ==
    IF index >= limit THEN -1
    ELSE IF At(b, index) = EQ THEN index
    ELSE FirstAssign(b, index + 1, limit)

\* Memory._readln.  ok is the value returned.
Readln(m) ==
    IF m.next >= Len(m.parse)
    THEN [ok |-> FALSE,
          m |-> IF ~m.lineIsEmpty
                THEN [m EXCEPT !.count = m.count + 1, !.line = <<>>,
                               !.lineIsEmpty = TRUE, !.tabs = -1, !.assign = -1]
                ELSE m]
    ELSE LET afterTabs == SkipTabs(m.parse, m.next)
             end == LineEnd(m.parse, afterTabs)
             eq == FirstAssign(m.parse, afterTabs, end)
         IN [ok |-> TRUE,
             m |-> [m EXCEPT !.tabs = afterTabs - m.next,
                             !.assign = IF eq < 0 THEN -1 ELSE eq - m.next,
                             !.line = Slice(m.parse, m.next, end),
                             !.lineIsEmpty = FALSE,
                             !.count = m.count + 1,
                             !.next = end + 1]]

\* ------------------------------------------------------------------ _readExcess

\* The text of the message (lines 573-578).  StringIO(initial) starts at
\* position 0, so the later write of " (<n> lines)" overwrites the start of
\* "#<first>: excess indentation": with one digit each, exactly "#<first>:
\* excess".  The line number survives only when nothing is written over it.
ExcessMessage(first, n) ==
    IF n > 1
    THEN [text |-> "excess indentation", key |-> <<>>, first |-> 0, lines |-> n]
    ELSE [text |-> "excess indentation", key |-> <<>>, first |-> first, lines |-> 0]

\* while self._readln() and self._tabs > len(self._indent): count += 1
RECURSIVE SkipExcess(_, _)
SkipExcess(m, n) ==
    LET r == Readln(m) IN
    IF r.ok /\ r.m.tabs > r.m.indent THEN SkipExcess(r.m, n + 1)
    ELSE [m |-> r.m, n |-> n]

ReadExcess(m) ==
    IF m.tabs > m.indent
    THEN LET s == SkipExcess(m, 1)
         IN ErrorsAdd(s.m, ExcessMessage(m.count, s.n))
    ELSE m

\* ------------------------------------------------------------------ _readComment, _readText

\* while self._readln() and self._tabs >= indent: append(self._line[indent:])
RECURSIVE ReadBlock(_, _, _)
ReadBlock(m, ind, acc) ==
    LET r == Readln(m) IN
    IF r.ok /\ r.m.tabs >= ind
    THEN ReadBlock(r.m, ind, Append(acc, SliceFrom(r.m.line, ind)))
    ELSE [m |-> r.m, lines |-> acc]

\* A comment reader that takes the comment's own line and no continuation
\* line.
ReadCommentLine(m, start) ==
    [m |-> Readln(m).m, lines |-> <<SliceFrom(m.line, start)>>]

\* Memory._readComment(start): the comment is .lines
ReadComment(m, start) ==
    ReadBlock(m, m.indent + 1, <<SliceFrom(m.line, start)>>)

\* Memory._readText: the text is .lines
ReadText(m) ==
    LET r == ReadBlock(m, m.indent + 1, <<>>)
    IN  IF Len(r.lines) = 1 /\ Len(r.lines[1]) = 0
        THEN [m |-> r.m, lines |-> <<>>]
        ELSE r

\* ------------------------------------------------------------------ the tree

\* Comment, Text: their lines.  A comment slot holds None or Some(lines).
Text(lines, after) == [kind |-> "Text", lines |-> lines, after |-> after]
List(items, intro, after) ==
    [kind |-> "List", items |-> items, intro |-> intro, after |-> after]
Dict(entries, intro, after) ==
    [kind |-> "Dict", entries |-> entries, intro |-> intro, after |-> after]
File(entries, hashbang, intro) ==
    [kind |-> "File", entries |-> entries, hashbang |-> hashbang, intro |-> intro]

\* One item of a Dict or File: the key object (its string, its type: "Key", or
\* "str" or "other" for a key that is no Key, blank_line_before,
\* comment_before) and the value stored under it.
Entry(name, blank, before, value) ==
    [key |-> name, type |-> "Key", blank |-> blank, before |-> before,
     value |-> value]

\* A value that is no Text, List or Dict.  has: the attributes among
\* starting_line and comment_after that the object lets the engine set and
\* read (Ellipsis, which the tests use, has none).
Bad(has) == [kind |-> "Bad", has |-> has, after |-> None]

\* A truth test that finds every Comment false.
TruthyNever(slot) == FALSE

\* bool(utf8): a Comment or Text is true when it holds at least one entry
Truthy(slot) == slot # None /\ slot[1] # <<>>

\* bytes.decode() of a key: bytes below 128 decode to themselves; byte 255,
\* the only other byte of the model's inputs, occurs in no valid UTF-8, so a
\* key that holds it raises UnicodeDecodeError.
Utf8Valid(b) == \A i \in 1..Len(b) : b[i] < 128

HasKey(entries, name) == \E i \in 1..Len(entries) : entries[i].key = name

\* A dict that keeps every assignment as an item of its own.
DictSetAppend(entries, e) == Append(entries, e)

\* array[key] = value of a Python dict: a key equal to one already present
\* keeps the old key object and its place and replaces the value.
DictSet(entries, e) ==
    IF HasKey(entries, e.key)
    THEN [i \in 1..Len(entries) |->
            IF entries[i].key = e.key
            THEN [entries[i] EXCEPT !.value = e.value] ELSE entries[i]]
    ELSE Append(entries, e)

\* ------------------------------------------------------------------ decode: the calls

\* One active call of _readDict or _readList: its array, its locals, and, while
\* it waits for a nested call, the key it read for the nested array.
Frame(kind, array) ==
    [kind |-> kind, phase |-> "enter", indent |-> 0, array |-> array,
     entries |-> 0, blank |-> 0, comment |-> None, key |-> <<>>]

\* What one step of decode leaves: the engine, the frames that replace the
\* innermost one, the path taken, and the exception raised, if any.
StepResult(m, frames, path) ==
    [m |-> m, frames |-> frames, branch |-> path, raised |-> ""]
Raised(m, path, exception) ==
    [m |-> m, frames |-> <<>>, branch |-> path, raised |-> exception]

\* A reader that attaches no comment_after.
ReadCommentAfterNone(m, ind, value) == [m |-> m, value |-> value]

\* value.comment_after = self._readComment(indent + 1), when the line at this
\* indent starts with "#" (lines 652-654 and 733-735)
ReadCommentAfter(m, ind, value) ==
    IF m.tabs = ind /\ Len(m.line) > ind /\ At(m.line, ind) = HASH
    THEN LET r == ReadComment(m, ind + 1)
         IN [m |-> r.m, value |-> [value EXCEPT !.after = Some(r.lines)]]
    ELSE [m |-> m, value |-> value]

\* The start of _readDict and of _readList (lines 659-668, 600-606).
EnterArray(m, f) ==
    LET m1 == ReadExcess(m)
        ind == m1.indent
    IN  IF m1.tabs < ind
        THEN StepResult(m1, <<[f EXCEPT !.phase = "done", !.indent = ind]>>, "return early")
        ELSE LET intro == Len(m1.line) > ind /\ At(m1.line, ind) = HASH
                 r == IF intro THEN ReadComment(m1, ind + 1)
                      ELSE [m |-> m1, lines |-> <<>>]
                 arr == IF intro THEN [f.array EXCEPT !.intro = Some(r.lines)]
                        ELSE f.array
             IN StepResult(ReadExcess(r.m),
                           <<[f EXCEPT !.phase = "loop", !.indent = ind, !.array = arr]>>,
                           IF intro THEN "comment_intro" ELSE "enter")

\* An install that applies no pending blank line or key comment and leaves
\* them pending.
DictInstallPlain(m, f, name, value, path) ==
    StepResult(ReadExcess(m),
               <<[f EXCEPT !.array.entries =
                              DictSet(f.array.entries, Entry(name, FALSE, None, value)),
                           !.entries = f.entries + 1,
                           !.key = <<>>]>>,
               path)

\* The end of one turn of _readDict's loop once the value is read (732-750).
DictInstall(m, f, name, value, path) ==
    LET a == ReadCommentAfter(m, f.indent, value)
        e == Entry(name, f.blank # 0, IF Truthy(f.comment) THEN f.comment ELSE None,
                   a.value)
        installed == DictSet(f.array.entries, e)
        entries == f.entries + 1
        m1 == IF Len(installed) # entries
              THEN ErrorsAdd(a.m, [text |-> "duplicate key", key |-> name,
                                   first |-> 0, lines |-> 0])
              ELSE a.m
    IN  StepResult(ReadExcess(m1),
                   <<[f EXCEPT !.array.entries = installed, !.entries = entries,
                               !.blank = 0,
                               !.comment = IF Truthy(f.comment) THEN None ELSE f.comment,
                               !.key = <<>>]>>,
                   path)

\* The end of one turn of _readList's loop once the value is read (651-656).
ListInstall(m, f, value, path) ==
    LET a == ReadCommentAfter(m, f.indent, value)
    IN  StepResult(ReadExcess(a.m),
                   <<[f EXCEPT !.array.items = Append(f.array.items, a.value)]>>,
                   path)

\* A turn without a value that in a list adds an empty item all the same.
NoValueItem(m, f, path) ==
    IF f.kind = "list" THEN ListInstall(m, f, Text(<<>>, None), path)
    ELSE StepResult(ReadExcess(m), <<f>>, path)

\* A turn that reads no value: only the trailing _readExcess (656, 750).
NoValue(m, f, path) == StepResult(ReadExcess(m), <<f>>, path)

\* A nested array opens: the opener line is consumed, the indent goes one
\* deeper and the nested call starts.
OpenArray(m, f, name, kind, path) ==
    StepResult(IndentMore(Readln(m).m),
               <<[f EXCEPT !.key = name],
                 Frame(IF kind = "List" THEN "list" ELSE "dict",
                       IF kind = "List" THEN List(<<>>, None, None)
                       ELSE Dict(<<>>, None, None))>>,
               path)

\* ------------------------------------------------------------------ _readDict

\* The last byte of the line is the closer (self._line[-1] == closer).
ClosedBy(m, closer) == At(m.line, Len(m.line) - 1) = closer

\* self._line[indent + 1 : -1]
OpenerKey(m, ind) == Slice(m.line, ind + 1, Len(m.line) - 1)

\* One turn of the loop of _readDict (lines 670-750) at a line with exactly
\* f.indent tabs.
DictTurn(m, f) ==
    LET ind == f.indent
        size == Len(m.line) - ind
        byte == At(m.line, ind)
    IN
    IF size < 0 THEN Raised(m, "impossible math", "AssertionError")
    ELSE IF size = 0 THEN
        \* a blank line; `continue` skips the trailing _readExcess
        IF Truthy(f.comment)
        THEN StepResult(Readln(ErrorsAdd(m, Msg("blank line must precede key comment"))).m,
                        <<f>>, "blank after key comment")
        ELSE IF f.blank # 0
        THEN StepResult(Readln(ErrorsAdd(m, Msg("more than one blank line"))).m,
                        <<f>>, "second blank")
        ELSE StepResult(Readln(m).m, <<[f EXCEPT !.blank = m.count]>>, "blank")
    ELSE IF byte = HASH THEN
        NoValue(ReadComment(ErrorsAdd(m, Msg("illegal position for comment")), ind + 1).m,
                f, "illegal comment")
    ELSE IF byte = SLASH THEN
        IF size < 2 \/ At(m.line, ind + 1) # SLASH
        THEN NoValue(ReadComment(ErrorsAdd(m, Msg("malformed key comment")), ind).m,
                     f, "malformed key comment")
        ELSE IF Truthy(f.comment)
        THEN NoValue(ErrorsAdd(m, Msg("more than one key comment")), f,
                     "second key comment")
        ELSE LET r == ReadComment(m, ind + 2)
             IN NoValue(r.m, [f EXCEPT !.comment = Some(r.lines)], "key comment")
    ELSE IF byte = LT THEN
        IF size < 2 \/ ~ClosedBy(m, GT)
        THEN NoValue(ErrorsAdd(m, Msg("malformed text opening")), f, "malformed text")
        ELSE IF ~Utf8Valid(OpenerKey(m, ind))
        THEN Raised(m, "text key", "UnicodeDecodeError")
        ELSE LET r == ReadText(m)
             IN DictInstall(r.m, f, OpenerKey(m, ind), Text(r.lines, None), "text entry")
    ELSE IF byte = LBRACKET THEN
        IF size < 2 \/ ~ClosedBy(m, RBRACKET)
        THEN NoValue(ErrorsAdd(m, Msg("malformed linear array opening")), f,
                     "malformed list")
        ELSE IF ~Utf8Valid(OpenerKey(m, ind))
        THEN Raised(m, "list key", "UnicodeDecodeError")
        ELSE OpenArray(m, f, OpenerKey(m, ind), "List", "open list")
    ELSE IF byte = LBRACE THEN
        IF size < 2 \/ ~ClosedBy(m, RBRACE)
        THEN NoValue(ErrorsAdd(m, Msg("malformed associative array opening")), f,
                     "malformed dict")
        ELSE IF ~Utf8Valid(OpenerKey(m, ind))
        THEN Raised(m, "dict key", "UnicodeDecodeError")
        ELSE OpenArray(m, f, OpenerKey(m, ind), "Dict", "open dict")
    ELSE
        IF m.assign < 0
        THEN NoValue(ErrorsAdd(m, Msg("malformed key=value association")), f,
                     "missing =")
        ELSE IF ~Utf8Valid(Slice(m.line, ind, m.assign))
        THEN Raised(m, "short key", "UnicodeDecodeError")
        ELSE DictInstall(Readln(m).m, f, Slice(m.line, ind, m.assign),
                         Text(<<SliceFrom(m.line, m.assign + 1)>>, None),
                         "short entry")

\* ------------------------------------------------------------------ _readList

\* One turn of the loop of _readList (lines 608-656).
ListTurn(m, f) ==
    LET ind == f.indent
        size == Len(m.line) - ind
        byte == At(m.line, ind)
    IN
    IF size < 0 THEN Raised(m, "impossible math", "AssertionError")
    ELSE IF size = 0 THEN
        ListInstall(Readln(m).m, f, Text(<<>>, None), "empty item")
    ELSE IF byte = HASH THEN
        NoValue(ReadComment(ErrorsAdd(m, Msg("unattached comment")), ind).m,
                f, "unattached comment")
    ELSE IF byte = SLASH THEN
        NoValue(ReadComment(ErrorsAdd(m, Msg("key comment in list context")), ind).m,
                f, "key comment in list")
    ELSE IF byte = LT THEN
        IF size # 2 \/ ~ClosedBy(m, GT)
        THEN NoValue(ErrorsAdd(m, Msg("malformed text opening")), f, "malformed text")
        ELSE LET r == ReadText(m)
             IN ListInstall(r.m, f, Text(r.lines, None), "text item")
    ELSE IF byte = LBRACKET THEN
        IF size # 2 \/ ~ClosedBy(m, RBRACKET)
        THEN NoValue(ErrorsAdd(m, Msg("malformed linear array opening")), f,
                     "malformed list")
        ELSE OpenArray(m, f, <<>>, "List", "open list")
    ELSE IF byte = LBRACE THEN
        IF size # 2 \/ ~ClosedBy(m, RBRACE)
        THEN NoValue(ErrorsAdd(m, Msg("malformed associative array opening")), f,
                     "malformed dict")
        ELSE OpenArray(m, f, <<>>, "Dict", "open dict")
    ELSE
        ListInstall(Readln(m).m, f, Text(<<SliceFrom(m.line, ind)>>, None), "short item")

\* ------------------------------------------------------------------ return from _readDict/_readList

\* An end of _readDict that lets what is pending go unreported.
LeaveArrayQuiet(m, f) == m

\* The end of _readDict (751-752): a pending blank or key comment is unclaimed.
LeaveArray(m, f) ==
    IF f.kind = "dict" /\ f.phase = "loop" /\ (Truthy(f.comment) \/ f.blank # 0)
    THEN ErrorsAdd(m, Msg("unclaimed key comment or blank line"))
    ELSE m

\* The nested call returns to the turn of the caller p that opened it: the
\* indent goes back and the turn ends as for any other value.
ReturnArray(m, p, f) ==
    LET m1 == IndentLess(LeaveArray(m, f))
    IN  IF p.kind = "dict" THEN DictInstall(m1, p, p.key, f.array, "dict entry: array")
        ELSE ListInstall(m1, p, f.array, "list item: array")

\* ------------------------------------------------------------------ outcomes

\* How a public operation ended: it returned a value, raised the aggregated
\* ValueError (the headline and the recorded errors), or was aborted by
\* another exception.
NoOutcome ==
    [op |-> "", kind |-> "none", value |-> <<>>, headline |-> "", errors |-> <<>>,
     exception |-> ""]
Returns(op, value) ==
    [op |-> op, kind |-> "return", value |-> value, headline |-> "", errors |-> <<>>,
     exception |-> ""]
Raises(op, text) ==
    [op |-> op, kind |-> "raise", value |-> <<>>, headline |-> text.headline,
     errors |-> text.errors, exception |-> "ValueError"]
Aborts(op, exception) ==
    [op |-> op, kind |-> "abort", value |-> <<>>, headline |-> "", errors |-> <<>>,
     exception |-> exception]

\* One entry of the history: a public operation that ended, its argument, how
\* it ended, and the errors it had recorded when it ended (before its finally
\* clause cleared the list).
Ended(argument, result, recorded) ==
    [op |-> result.op, arg |-> argument, outcome |-> result, recorded |-> recorded]

\* ------------------------------------------------------------------ decode

\* decode that takes every first line starting with '#' for the hashbang
DecodeBeginAnyHash(m, alacs) ==
    LET m1 == [IndentZero([m EXCEPT !.errors = <<>>])
                  EXCEPT !.count = 0, !.parse = alacs, !.next = 0]
        m2 == Readln(m1).m
        hashbang == Len(m2.line) > 1 /\ At(m2.line, 0) = HASH
        r == IF hashbang THEN ReadComment(m2, 2) ELSE [m |-> m2, lines |-> <<>>]
    IN  [m |-> r.m,
         stack |-> <<Frame("dict", File(<<>>, IF hashbang THEN Some(r.lines) ELSE None,
                                        None))>>]

\* decode up to the call of _readDict (lines 521-531)
DecodeBegin(m, alacs) ==
    LET m1 == [IndentZero([m EXCEPT !.errors = <<>>])
                  EXCEPT !.count = 0, !.parse = alacs, !.next = 0]
        m2 == Readln(m1).m
        hashbang == Len(m2.line) > 1 /\ At(m2.line, 0) = HASH /\ At(m2.line, 1) = BANG
        r == IF hashbang THEN ReadComment(m2, 2) ELSE [m |-> m2, lines |-> <<>>]
    IN  [m |-> r.m,
         stack |-> <<Frame("dict", File(<<>>, IF hashbang THEN Some(r.lines) ELSE None,
                                        None))>>]

\* the finally clause of decode (lines 535-539)
DecodeFinally(m) ==
    [IndentZero(m) EXCEPT !.scratch = <<>>, !.errors = <<>>, !.parse = <<>>,
                          !.line = <<>>, !.lineIsEmpty = TRUE]

\* decode after _readDict returned (lines 532-534)
DecodeResult(m, file) ==
    IF m.errors # <<>> THEN Raises("decode", ErrorText(m, "parse errors"))
    ELSE Returns("decode", file)

Top == stack[Len(stack)]

\* the loop condition of _readDict and _readList: while self._tabs == indent
InLoop(m, f) == f.phase = "loop" /\ m.tabs = f.indent

\* A step of decode took effect: the innermost n frames are replaced, or the
\* exception leaves decode through its finally clause.
Continue(r, n) ==
    /\ branch' = r.branch
    /\ UNCHANGED <<arg, calls>>
    /\ IF r.raised = ""
       THEN /\ SetEngine(r.m)
            /\ stack' = SubSeq(stack, 1, Len(stack) - n) \o r.frames
            /\ UNCHANGED <<pc, outcome, history>>
       ELSE /\ SetEngine(DecodeFinally(r.m))
            /\ stack' = <<>>
            /\ pc' = "idle"
            /\ outcome' = Aborts("decode", r.raised)
            /\ history' = Append(history, Ended(arg, Aborts("decode", r.raised), r.m.errors))

\* The number of errors one call may record in the model: the turns that
\* consume no line record one error each, without end.
MaxErrors == 5

\* decode(alacs) is called
DecodeCall(alacs) ==
    /\ pc = "idle"
    /\ LET b == DecodeBegin(Engine, alacs)
       IN  SetEngine(b.m) /\ stack' = b.stack
    /\ pc' = "decode"
    /\ arg' = alacs
    /\ outcome' = NoOutcome
    /\ branch' = "decode"
    /\ calls' = calls + 1
    /\ UNCHANGED history

\* _readDict or _readList starts
ReadEnter ==
    /\ pc = "decode"
    /\ Top.phase = "enter"
    /\ Continue(EnterArray(Engine, Top), 1)

\* one turn of the loop of _readDict
ReadDictTurn ==
    /\ pc = "decode"
    /\ Top.kind = "dict"
    /\ InLoop(Engine, Top)
    /\ Len(errors) < MaxErrors
    /\ Continue(DictTurn(Engine, Top), 1)

\* one turn of the loop of _readList
ReadListTurn ==
    /\ pc = "decode"
    /\ Top.kind = "list"
    /\ InLoop(Engine, Top)
    /\ Len(errors) < MaxErrors
    /\ Continue(ListTurn(Engine, Top), 1)

\* a nested _readDict or _readList returns to the turn that called it
ReadReturn ==
    /\ pc = "decode"
    /\ Len(stack) > 1
    /\ Top.phase # "enter"
    /\ ~InLoop(Engine, Top)
    /\ Continue(ReturnArray(Engine, stack[Len(stack) - 1], Top), 2)

\* the outermost _readDict returns and decode ends
DecodeReturn ==
    /\ pc = "decode"
    /\ Len(stack) = 1
    /\ Top.phase # "enter"
    /\ ~InLoop(Engine, Top)
    /\ LET m == LeaveArray(Engine, Top)
       IN  /\ outcome' = DecodeResult(m, Top.array)
           /\ history' = Append(history, Ended(arg, DecodeResult(m, Top.array), m.errors))
           /\ SetEngine(DecodeFinally(m))
    /\ stack' = <<>>
    /\ pc' = "idle"
    /\ branch' = "decode returns"
    /\ UNCHANGED <<arg, calls>>

\* ------------------------------------------------------------------ decode, start to end

\* decode run from the call to its end on engine m: the engine it leaves and
\* its outcome.  A call whose loop turn changes nothing repeats that turn
\* forever; a call that still records errors at MaxErrors is taken to do so
\* forever too.  Both have the outcome "diverges".
Diverges(m) ==
    [m |-> m, outcome |-> [NoOutcome EXCEPT !.op = "decode", !.kind = "diverges"],
     recorded |-> m.errors]

RECURSIVE RunDecode(_, _)
AfterStep(r, stk, n) ==
    IF r.raised # ""
    THEN [m |-> DecodeFinally(r.m), outcome |-> Aborts("decode", r.raised),
          recorded |-> r.m.errors]
    ELSE RunDecode(r.m, SubSeq(stk, 1, Len(stk) - n) \o r.frames)
AfterTurn(m, f, r, stk) ==
    IF r.raised = "" /\ r.m = m /\ r.frames = <<f>> THEN Diverges(m)
    ELSE AfterStep(r, stk, 1)
RunDecode(m, stk) ==
    LET f == stk[Len(stk)] IN
    IF f.phase = "enter" THEN AfterStep(EnterArray(m, f), stk, 1)
    ELSE IF InLoop(m, f) THEN
        IF Len(m.errors) >= MaxErrors THEN Diverges(m)
        ELSE AfterTurn(m, f, IF f.kind = "dict" THEN DictTurn(m, f) ELSE ListTurn(m, f), stk)
    ELSE IF Len(stk) > 1 THEN AfterStep(ReturnArray(m, stk[Len(stk) - 1], f), stk, 2)
    ELSE LET m1 == LeaveArray(m, f)
         IN [m |-> DecodeFinally(m1), outcome |-> DecodeResult(m1, f.array),
             recorded |-> m1.errors]

Decode(m, alacs) ==
    LET b == DecodeBegin(m, alacs) IN RunDecode(b.m, b.stack)

\* ------------------------------------------------------------------ encode

Write(m, bytes) == [m EXCEPT !.write = m.write \o bytes]

\* Memory._writeIndent
WriteIndent(m) ==
    Write(IF m.count # 0
          THEN [m EXCEPT !.write = Append(m.write, NL), !.count = m.count + 1]
          ELSE [m EXCEPT !.count = 1],
          Tabs(m.indent))

\* for index in range(1, len(comment)): _writeIndent; write(comment[index])
RECURSIVE WriteLines(_, _, _)
WriteLines(m, lines, index) ==
    IF index >= Len(lines) THEN m
    ELSE WriteLines(Write(WriteIndent(m), At(lines, index)), lines, index + 1)

\* Memory._writeComment
WriteCommentLines(m, lines) ==
    IF lines = <<>> THEN m
    ELSE IndentLess(WriteLines(IndentMore(Write(m, lines[1])), lines, 1))

WriteComment(m, marker, comment) ==
    IF comment = None THEN m
    ELSE WriteCommentLines(Write(WriteIndent(m), marker), normalize(comment[1]))

StartsSpecial(b, special) == b # <<>> /\ b[1] \in special

\* A _shortList that lets a line starting with "=" pass as short.
ShortListAssign(lines) ==
    IF Len(lines) = 0 THEN TRUE
    ELSE IF Len(lines) = 1
    THEN ~StartsSpecial(lines[1],
            {TAB, HASH, LT, GT, LBRACKET, RBRACKET, LBRACE, RBRACE, SLASH})
    ELSE FALSE

\* A _shortDict that lets a key holding "=" pass as short.
ShortDictAssign(name, lines) ==
    IF Len(lines) > 1 THEN FALSE
    ELSE IF name = <<>> THEN TRUE
    ELSE ~StartsSpecial(name,
            {TAB, HASH, LT, GT, LBRACKET, RBRACKET, LBRACE, RBRACE, SLASH})

\* Memory._shortList, on the normalized text
ShortList(lines) ==
    IF Len(lines) = 0 THEN TRUE
    ELSE IF Len(lines) = 1
    THEN ~StartsSpecial(lines[1],
            {TAB, HASH, LT, GT, LBRACKET, RBRACKET, LBRACE, RBRACE, SLASH, EQ})
    ELSE FALSE

\* Memory._shortDict, on the normalized text
ShortDict(name, lines) ==
    IF Len(lines) > 1 THEN FALSE
    ELSE IF name = <<>> THEN TRUE
    ELSE IF StartsSpecial(name,
            {TAB, HASH, LT, GT, LBRACKET, RBRACKET, LBRACE, RBRACE, SLASH})
    THEN FALSE
    ELSE IF Contains(name, EQ) THEN FALSE
    ELSE TRUE

\* the block form of a text: the opener, then every line one indent deeper
WriteBlock(m, opener, lines) ==
    IndentLess(WriteLines(IndentMore(Write(m, opener)), lines, 0))

\* The writers give the engine and the exception raised, if any.
Written(m) == [m |-> m, raised |-> ""]
WriteRaised(m, exception) == [m |-> m, raised |-> exception]

\* self._writeComment(b"#", value.comment_after), the last statement of a
\* turn of _writeList and _writeDict (lines 457, 516)
WriteAfter(r, value) ==
    IF r.raised # "" THEN r
    ELSE Written(WriteComment(r.m, <<HASH>>, value.after))

\* case _: a value that is no Text, List or Dict (lines 455-457, 514-516),
\* after value.starting_line = self._count (lines 433, 483)
WriteBad(m, value) ==
    IF "starting_line" \notin value.has THEN WriteRaised(m, "AttributeError")
    ELSE IF "comment_after" \notin value.has
    THEN WriteRaised(ErrorsAdd(m, TypeMsg("value is", "other")), "AttributeError")
    ELSE WriteAfter(Written(ErrorsAdd(m, TypeMsg("value is", "other"))), value)

RECURSIVE WriteList(_, _)
RECURSIVE WriteDict(_, _)

\* A writer that stays at the deeper indent after a nested list or dict.
WriteOutdentStay(r) == r

\* self._indent = self._indent.less() once the nested writer returned; an
\* exception passes it by
WriteOutdent(r) == IF r.raised # "" THEN r ELSE Written(IndentLess(r.m))

\* case List() and case Dict(): the opener, then the nested array one indent
\* deeper (lines 445-454, 500-513)
WriteNested(m, name, value) ==
    WriteOutdent(IF value.kind = "List"
                 THEN WriteList(IndentMore(Write(m, <<LBRACKET>> \o name \o <<RBRACKET>>)),
                                value)
                 ELSE WriteDict(IndentMore(Write(m, <<LBRACE>> \o name \o <<RBRACE>>)),
                                value))

\* The match on the value and its comment_after, for _writeList (name and
\* prefix empty) and _writeDict (prefix is the key and "="); short is what
\* _shortList or _shortDict answers, lines the normalized text.
WriteValue(m, name, prefix, short, value, lines) ==
    IF value.kind = "Text"
    THEN WriteAfter(Written(IF short
                            THEN Write(m, prefix \o (IF lines # <<>> THEN lines[1]
                                                     ELSE <<>>))
                            ELSE WriteBlock(m, <<LT>> \o name \o <<GT>>, lines)),
                    value)
    ELSE IF value.kind \in {"List", "Dict"}
    THEN WriteAfter(WriteNested(m, name, value), value)
    ELSE WriteBad(m, value)

\* One turn of the loop of _writeList (lines 431-457)
WriteItem(m, index, value) ==
    WriteValue(WriteIndent(SetKey(m, IntKey(index))), <<>>, <<>>,
               ShortList(normalize(value.lines)), value, normalize(value.lines))

\* A turn of _writeDict that writes the key comment before the blank line.
WriteEntryCommentFirst(mk, e) ==
    IF e.type # "Key" THEN Written(ErrorsAdd(mk, TypeMsg("key is", e.type)))
    ELSE WriteValue(WriteIndent(IF e.blank
                                THEN WriteIndent(WriteComment(mk, <<SLASH, SLASH>>, e.before))
                                ELSE WriteComment(mk, <<SLASH, SLASH>>, e.before)),
                    e.key, e.key \o <<EQ>>,
                    ShortDict(e.key, normalize(e.value.lines)), e.value,
                    normalize(e.value.lines))

\* One turn of the loop of _writeDict (lines 475-516); mk is the engine once
\* self._indent._key is set.
WriteEntry(mk, e) ==
    IF e.type # "Key" THEN Written(ErrorsAdd(mk, TypeMsg("key is", e.type)))
    ELSE WriteValue(WriteIndent(WriteComment(IF e.blank THEN WriteIndent(mk) ELSE mk,
                                             <<SLASH, SLASH>>, e.before)),
                    e.key, e.key \o <<EQ>>,
                    ShortDict(e.key, normalize(e.value.lines)), e.value,
                    normalize(e.value.lines))

\* for index, value in enumerate(array): the turns from position index on,
\* ended by the first exception
RECURSIVE WriteItems(_, _, _)
WriteItems(r, items, index) ==
    IF r.raised # "" \/ index >= Len(items) THEN r
    ELSE WriteItems(WriteItem(r.m, index, At(items, index)), items, index + 1)

RECURSIVE WriteEntries(_, _, _)
WriteEntries(r, entries, index) ==
    IF r.raised # "" \/ index >= Len(entries) THEN r
    ELSE WriteEntries(WriteEntry(SetKey(r.m, IF At(entries, index).type = "other"
                                             THEN OtherKey
                                             ELSE StrKey(At(entries, index).key)),
                                 At(entries, index)),
                      entries, index + 1)

\* Memory._writeList
WriteList(m, array) ==
    WriteItems(Written(WriteComment(m, <<HASH>>, array.intro)), array.items, 0)

\* Memory._writeDict
WriteDict(m, array) ==
    WriteEntries(Written(WriteComment(m, <<HASH>>, array.intro)), array.entries, 0)

\* the finally clause of encode and of file (lines 391-394, 335-338)
EncodeFinally(m) == [IndentZero(m) EXCEPT !.scratch = <<>>, !.errors = <<>>]

\* encode before the writers run (lines 378-383)
EncodeBegin(m) ==
    [IndentZero([m EXCEPT !.errors = <<>>]) EXCEPT !.count = 0, !.write = <<>>]

\* encode after the writers ran (lines 386-394)
EncodeResult(r) ==
    [m |-> EncodeFinally(r.m), recorded |-> r.m.errors,
     outcome |->
        IF r.raised # "" THEN Aborts("encode", r.raised)
        ELSE IF r.m.errors # <<>>
        THEN Raises("encode",
                    ErrorText(r.m, "argument is or contains illegal non-Value data"))
        ELSE Returns("encode", r.m.write)]

\* Memory.encode
Encode(m, file) ==
    EncodeResult(WriteDict(WriteComment(EncodeBegin(m), <<HASH, BANG>>, file.hashbang),
                           file))

\* ------------------------------------------------------------------ plain data

\* The simple Python data of python() and file(): None, a string (its UTF-8
\* bytes), a list, a dict (its items in insertion order, each key a string or
\* some other object), and any other object.
PNone == [kind |-> "None"]
PStr(v) == [kind |-> "str", v |-> v]
PList(items) == [kind |-> "list", items |-> items]
PDict(entries) == [kind |-> "dict", entries |-> entries]
PBad == [kind |-> "Bad"]
PItem(name, value) == [key |-> name, type |-> "str", value |-> value]

\* ------------------------------------------------------------------ python (to_plain)

\* What a conversion gives: the engine, the value, the exception raised if any
Converted(m, value) == [m |-> m, value |-> value, raised |-> ""]
ConvertRaised(m, exception) == [m |-> m, value |-> <<>>, raised |-> exception]

\* Memory._python; PythonItems and PythonEntries are its two loops
RECURSIVE PythonValue(_, _)
RECURSIVE PythonItems(_, _, _, _)
RECURSIVE PythonEntries(_, _, _, _)
PythonItems(m, items, index, acc) ==
    IF index >= Len(items) THEN Converted(m, acc)
    ELSE LET r == PythonValue(SetKey(m, IntKey(index)), At(items, index))
         IN  IF r.raised # "" THEN r
             ELSE PythonItems(r.m, items, index + 1, Append(acc, r.value))

PythonEntries(m, entries, index, acc) ==
    IF index >= Len(entries) THEN Converted(m, acc)
    ELSE LET e == At(entries, index)
             mk == SetKey(m, IF e.type = "other" THEN OtherKey ELSE StrKey(e.key))
         IN  IF e.type # "Key"
             THEN PythonEntries(ErrorsAdd(mk, TypeMsg("key is", e.type)), entries,
                                index + 1, acc)
             ELSE LET r == PythonValue(mk, e.value)
                  IN  IF r.raised # "" THEN r
                      ELSE PythonEntries(r.m, entries, index + 1,
                                         DictSet(acc, PItem(e.key, r.value)))

PythonValue(m, any) ==
    IF any.kind = "Text"
    THEN \* str(any): the lines joined by newlines, decoded
         IF Utf8Valid(JoinLines(any.lines)) THEN Converted(m, PStr(JoinLines(any.lines)))
         ELSE ConvertRaised(m, "UnicodeDecodeError")
    ELSE IF any.kind = "List"
    THEN LET r == PythonItems(IndentMore(m), any.items, 0, <<>>)
         IN  IF r.raised # "" THEN r ELSE Converted(IndentLess(r.m), PList(r.value))
    ELSE IF any.kind \in {"Dict", "File"}
    THEN LET r == PythonEntries(IndentMore(m), any.entries, 0, <<>>)
         IN  IF r.raised # "" THEN r ELSE Converted(IndentLess(r.m), PDict(r.value))
    ELSE Converted(ErrorsAdd(m, TypeMsg("value is", "other")), PNone)

\* the finally clause of python (lines 278-280)
PythonFinally(m) == [IndentZero(m) EXCEPT !.errors = <<>>]

\* Memory.python
Python(m, tree) ==
    LET r == PythonValue(IndentZero([m EXCEPT !.errors = <<>>]), tree)
    IN  [m |-> PythonFinally(r.m), recorded |-> r.m.errors,
         outcome |->
            IF r.raised # "" THEN Aborts("python", r.raised)
            ELSE IF r.m.errors # <<>>
            THEN Raises("python",
                        ErrorText(r.m, "argument is or contains illegal non-Value data"))
            ELSE IF r.value.kind = "dict" THEN Returns("python", r.value)
            ELSE Aborts("python", "AssertionError")]

\* ------------------------------------------------------------------ file (from_plain)

\* Memory._value; ValueItems and ValueEntries are its two loops.  The value
\* is None or Some(tree).
RECURSIVE Value(_, _)
RECURSIVE ValueItems(_, _, _, _)
RECURSIVE ValueEntries(_, _, _, _)
ValueItems(m, items, index, acc) ==
    IF index >= Len(items) THEN Converted(m, acc)
    ELSE LET r == Value(SetKey(m, IntKey(index)), At(items, index))
         IN  IF r.raised # "" THEN r
             ELSE ValueItems(r.m, items, index + 1,
                             IF r.value # None THEN Append(acc, r.value[1]) ELSE acc)

ValueEntries(m, entries, index, acc) ==
    IF index >= Len(entries) THEN Converted(m, acc)
    ELSE LET e == At(entries, index)
             mk == SetKey(m, IF e.type = "str" THEN StrKey(e.key) ELSE OtherKey)
         IN  IF e.type # "str"
             THEN ValueEntries(ErrorsAdd(mk, TypeMsg("key is", "other")), entries,
                               index + 1, acc)
             ELSE LET r == Value(mk, e.value)
                  IN  IF r.raised # "" THEN r
                      ELSE IF r.value = None
                      THEN ValueEntries(r.m, entries, index + 1, acc)
                      \* Key(k): "newline in key"
                      ELSE IF Contains(e.key, NL) THEN ConvertRaised(r.m, "ValueError")
                      ELSE ValueEntries(r.m, entries, index + 1,
                                        DictSet(acc, Entry(e.key, FALSE, None, r.value[1])))

Value(m, any) ==
    IF any.kind = "None" THEN Converted(m, Some(Text(<<>>, None)))
    ELSE IF any.kind = "str"
    THEN Converted(m, Some(Text(normalize(<<any.v>>), None)))
    ELSE IF any.kind = "list"
    THEN LET r == ValueItems(IndentMore(m), any.items, 0, <<>>)
         IN  IF r.raised # "" THEN r
             ELSE Converted(IndentLess(r.m), Some(List(r.value, None, None)))
    ELSE IF any.kind = "dict"
    THEN LET r == ValueEntries(IndentMore(m), any.entries, 0, <<>>)
         IN  IF r.raised # "" THEN r
             ELSE Converted(IndentLess(r.m), Some(Dict(r.value, None, None)))
    ELSE Converted(ErrorsAdd(m, TypeMsg("value is", "other")), None)

\* Memory.file
FileFrom(m, mapping) ==
    LET r == Value(IndentZero([m EXCEPT !.errors = <<>>]), mapping)
    IN  [m |-> EncodeFinally(r.m), recorded |-> r.m.errors,
         outcome |->
            IF r.raised # "" THEN Aborts("file", r.raised)
            ELSE IF r.m.errors # <<>>
            THEN Raises("file",
                        ErrorText(r.m, "argument contains data that cant be converted to Value"))
            ELSE IF r.value = None THEN Aborts("file", "AssertionError")
            ELSE IF r.value[1].kind = "Dict"
            THEN Returns("file", File(r.value[1].entries, None, r.value[1].intro))
            ELSE Aborts("file", "AssertionError")]

\* ------------------------------------------------------------------ the public operations

\* A public operation that runs from its call to its end in one step.
Call(op, argument, r) ==
    /\ pc = "idle"
    /\ SetEngine(r.m)
    /\ arg' = argument
    /\ outcome' = r.outcome
    /\ history' = Append(history, Ended(argument, r.outcome, r.recorded))
    /\ branch' = op
    /\ calls' = calls + 1
    /\ UNCHANGED <<pc, stack>>

EncodeCall(tree) == Call("encode", tree, Encode(Engine, tree))
PythonCall(tree) == Call("python", tree, Python(Engine, tree))
FileCall(mapping) == Call("file", mapping, FileFrom(Engine, mapping))

\* ------------------------------------------------------------------ inputs of decode

\* The lines decode is given in the model: each is some tabs and one of these
\* bodies; an input is up to MaxLines lines joined by newlines.
MaxLines == 3
MaxTabs == 1

Bodies ==
    { <<>>,                       \* a blank line
      <<107, EQ, 118>>,           \* k=v
      <<107, EQ, 119>>,           \* k=w
      <<107>>,                    \* k
      <<LT, 107, GT>>,            \* <k>
      <<LT, 107>>,                \* <k
      <<LBRACKET, 107, RBRACKET>>,\* [k]
      <<LBRACKET, 107>>,          \* [k
      <<LBRACE, 107, RBRACE>>,    \* {k}
      <<LBRACE, 107>>,            \* {k
      <<LT, GT>>,                 \* <>
      <<LBRACKET, RBRACKET>>,     \* []
      <<LBRACE, RBRACE>>,         \* {}
      <<HASH, 99>>,               \* #c
      <<HASH, BANG>>,             \* #!
      <<SLASH, SLASH, 99>>,       \* //c
      <<SLASH, 99>>,              \* /c
      <<LT, 255, GT>> }           \* a text opener whose key is not UTF-8

Lines == { Tabs(n) \o body : n \in 0..MaxTabs, body \in Bodies }

RECURSIVE InputsOf(_)
InputsOf(n) ==
    IF n = 0 THEN { <<>> }
    ELSE IF n = 1 THEN Lines
    ELSE { b \o <<NL>> \o l : b \in InputsOf(n - 1), l \in Lines }

DecodeInputs == UNION { InputsOf(n) : n \in 0..MaxLines }

\* ------------------------------------------------------------------ specifications

InitEngine ==
    /\ SetEngineInit
    /\ pc = "idle"
    /\ stack = <<>>
    /\ arg = <<>>
    /\ outcome = NoOutcome
    /\ branch = "init"
    /\ calls = 0
    /\ history = <<>>

\* One decode on a fresh engine, on every input of the model.
NextDecode ==
    \/ calls = 0 /\ \E alacs \in DecodeInputs : DecodeCall(alacs)
    \/ ReadEnter
    \/ ReadDictTurn
    \/ ReadListTurn
    \/ ReadReturn
    \/ DecodeReturn

SpecDecode == InitEngine /\ [][NextDecode]_vars

\* ------------------------------------------------------------------ round trips

\* The trees of the round trips: files of up to two entries, values nested up
\* to two deep, lists of up to MaxItems items, every comment slot and flag.
MaxItems == 2

Comments == { None, Some(<< <<99>> >>) }
FileIntros ==
    Comments \cup { Some(<<>>), Some(<< <<BANG, 120>> >>), Some(<< <<99, NL, 100>> >>) }
Hashbangs == { None, Some(<< <<104>> >>) }
TextLines ==
    { <<>>, << <<118>> >>, << <<97>>, <<98>> >>, << <<HASH, 118>> >>, << <<>> >>,
      << <<97, NL, 98>> >>, << <<>>, <<>> >> }
Texts == { Text(l, a) : l \in TextLines, a \in Comments }
Keys == { <<107>>, <<>>, <<HASH, 107>> }

RECURSIVE SeqsUpTo(_, _)
SeqsUpTo(S, n) ==
    IF n = 0 THEN { <<>> }
    ELSE SeqsUpTo(S, n - 1) \cup { Append(u, x) : u \in SeqsUpTo(S, n - 1), x \in S }

ItemValues ==
    { Text(<< <<118>> >>, None), Text(<<>>, None),
      Text(<< <<97>>, <<98>> >>, Some(<< <<99>> >>)),
      List(<<>>, None, None), Dict(<<>>, None, None) }
Lists == { List(items, i, a) : items \in SeqsUpTo(ItemValues, MaxItems),
                               i \in Comments, a \in Comments }
Entries(V) == { Entry(k, b, c, v) : k \in Keys, b \in BOOLEAN, c \in Comments, v \in V }
Dicts == { Dict(es, i, a) : es \in { <<>> } \cup { <<e>> : e \in Entries(ItemValues) },
                            i \in Comments, a \in Comments }
Values == Texts \cup Lists \cup Dicts

Trees ==
    { File(<<e>>, None, None) : e \in Entries(Values) }
    \cup { File(es, h, i) :
             es \in { <<>>, <<Entry(<<107>>, FALSE, None, Text(<< <<118>> >>, None))>>,
                      <<Entry(<<107>>, TRUE, None, Text(<< <<118>> >>, None))>> },
             h \in Hashbangs, i \in FileIntros }
    \cup { File(<<e, Entry(<<106>>, b, c, v)>>, None, None) :
             e \in Entries(ItemValues), b \in BOOLEAN, c \in Comments, v \in ItemValues }

\* encode(T) and python(T) for a tree T, each on a fresh engine
EncodeTree == calls = 0 /\ \E T \in Trees : EncodeCall(T)
PythonTree == calls = 0 /\ \E T \in Trees : PythonCall(T)

LastReturned(op) ==
    /\ pc = "idle"
    /\ outcome.op = op
    /\ outcome.kind = "return"

\* decode of the bytes encode returned, encode of the tree decode returned,
\* file of the data python returned, on the same engine
DecodeEncoded == calls = 1 /\ LastReturned("encode") /\ DecodeCall(outcome.value)
EncodeDecoded == calls = 2 /\ LastReturned("decode") /\ EncodeCall(outcome.value)
FileOfPython == calls = 1 /\ LastReturned("python") /\ FileCall(outcome.value)

NextRoundTrip ==
    \/ EncodeTree
    \/ DecodeEncoded
    \/ ReadEnter
    \/ ReadDictTurn
    \/ ReadListTurn
    \/ ReadReturn
    \/ DecodeReturn
    \/ EncodeDecoded
    \/ PythonTree
    \/ FileOfPython

SpecRoundTrip == InitEngine /\ [][NextRoundTrip]_vars

\* A tree with the contents of every Text and Comment normalized
CanonComment(c) == IF c = None THEN None ELSE Some(normalize(c[1]))
RECURSIVE Canon(_)
Canon(v) ==
    LET entries(es) == [i \in 1..Len(es) |->
                           [es[i] EXCEPT !.before = CanonComment(es[i].before),
                                         !.value = Canon(es[i].value)]]
    IN  IF v.kind = "Text" THEN Text(normalize(v.lines), CanonComment(v.after))
        ELSE IF v.kind = "List"
        THEN List([i \in 1..Len(v.items) |-> Canon(v.items[i])],
                  CanonComment(v.intro), CanonComment(v.after))
        ELSE IF v.kind = "Dict"
        THEN Dict(entries(v.entries), CanonComment(v.intro), CanonComment(v.after))
        ELSE File(entries(v.entries), CanonComment(v.hashbang), CanonComment(v.intro))

\* A tree with every comment, blank-line flag and the hashbang erased and
\* every text normalized; a File for the top level
RECURSIVE Erase(_)
Erase(v) ==
    LET entries(es) == [i \in 1..Len(es) |->
                           Entry(es[i].key, FALSE, None, Erase(es[i].value))]
    IN  IF v.kind = "Text" THEN Text(normalize(v.lines), None)
        ELSE IF v.kind = "List"
        THEN List([i \in 1..Len(v.items) |-> Erase(v.items[i])], None, None)
        ELSE IF v.kind = "Dict" THEN Dict(entries(v.entries), None, None)
        ELSE File(entries(v.entries), None, None)

\* the call that ended as number i + 1 was given what call number i returned
Fed(i, first, second) ==
    /\ i + 1 <= Len(history)
    /\ history[i].op = first
    /\ history[i].outcome.kind = "return"
    /\ history[i + 1].op = second
    /\ history[i + 1].arg = history[i].outcome.value

\* C1: for every tree T (any combination of hashbang, comment_intro,
\* comment_before, comment_after and blank_line_before), decode(encode(T))
\* returns without error a tree equal to T, the contents of Text and Comment
\* compared as normalized line sequences.
C1_DecodeEncode ==
    \A i \in 1..Len(history) :
        Fed(i, "encode", "decode") =>
            /\ history[i + 1].outcome.kind = "return"
            /\ Canon(history[i + 1].outcome.value) = Canon(history[i].arg)

\* C2: for every byte string B that encode returned for some tree,
\* decode(B) returns a tree and encode of that tree returns B, byte for byte.
C2_EncodeDecode ==
    \A i \in 1..Len(history) :
        /\ Fed(i, "encode", "decode") => history[i + 1].outcome.kind = "return"
        /\ (Fed(i, "encode", "decode") /\ Fed(i + 1, "decode", "encode")) =>
              history[i + 2].outcome = Returns("encode", history[i].outcome.value)

\* C2 witness: bytes with a comment line and several lines came back the same
C2_Witness ==
    /\ Len(history) = 3
    /\ Fed(1, "encode", "decode")
    /\ Fed(2, "decode", "encode")
    /\ history[3].outcome = Returns("encode", history[1].outcome.value)
    /\ Contains(history[1].outcome.value, HASH)
    /\ Contains(history[1].outcome.value, TAB)
    /\ Newlines(history[1].outcome.value) >= 3

MaxCalls == 2

KV == Entry(<<107>>, FALSE, None, Text(<< <<118>> >>, None))

DecodeArgs ==
    { <<>>,                                         \* the empty input
      <<107, EQ, 118>>,                             \* k=v
      <<107, EQ, 118, NL, 107, EQ, 119>>,           \* k=v, k=w
      <<TAB, 107, EQ, 118, NL, 107, EQ, 118>>,      \* an over-indented line, k=v
      <<LBRACKET, 107, RBRACKET, NL, TAB, 118>>,    \* [k] with the item v
      <<LT, 107>>,                                  \* <k
      <<LT, 255, GT>> }                             \* <key>, the key no UTF-8

TreeArgs ==
    { File(<<KV>>, None, None),
      File(<<[KV EXCEPT !.type = "str"]>>, None, None),
      File(<<[KV EXCEPT !.type = "other", !.key = <<>>]>>, None, None),
      File(<<[KV EXCEPT !.value = Bad({})]>>, None, None),
      File(<<[KV EXCEPT !.value = Bad({"starting_line"})]>>, None, None),
      File(<<[KV EXCEPT !.value = Bad({"starting_line", "comment_after"})]>>, None, None),
      File(<<[KV EXCEPT !.value = List(<<Bad({})>>, None, None)]>>, None, None),
      File(<<[KV EXCEPT !.value = Text(<< <<255>> >>, None)]>>, None, None) }

PlainArgs ==
    { PDict(<<PItem(<<107>>, PStr(<<118>>))>>),
      PDict(<<PItem(<<107>>, PList(<<PNone, PStr(<<97, NL, 98>>)>>))>>),
      PDict(<<PItem(<<107>>, PBad)>>),
      PDict(<<[PItem(<<>>, PStr(<<118>>)) EXCEPT !.type = "other"]>>),
      PDict(<<PItem(<<97, NL, 98>>, PStr(<<118>>))>>),
      PList(<<>>) }

DecodeAny == calls < MaxCalls /\ \E alacs \in DecodeArgs : DecodeCall(alacs)
EncodeAny == calls < MaxCalls /\ \E tree \in TreeArgs : EncodeCall(tree)
PythonAny == calls < MaxCalls /\ \E tree \in TreeArgs : PythonCall(tree)
FileAny == calls < MaxCalls /\ \E mapping \in PlainArgs : FileCall(mapping)

Next ==
    \/ DecodeAny
    \/ ReadEnter
    \/ ReadDictTurn
    \/ ReadListTurn
    \/ ReadReturn
    \/ DecodeReturn
    \/ EncodeAny
    \/ PythonAny
    \/ FileAny

Spec == InitEngine /\ [][Next]_vars

\* the headline of the aggregated error of each operation
Headline(op) ==
    IF op = "decode" THEN "parse errors"
    ELSE IF op = "file" THEN "argument contains data that cant be converted to Value"
    ELSE "argument is or contains illegal non-Value data"

\* C5: each of decode, encode, python and file raises the aggregated error if
\* and only if at least one error was recorded during the call; the error
\* lists every recorded error once, in the order recorded, under the headline
\* of the operation; when no error was recorded the call returns its result.
C5_RaiseIffRecorded ==
    \A i \in 1..Len(history) :
        LET h == history[i] IN
        /\ (h.outcome.kind = "raise") <=> (h.recorded # <<>>)
        /\ h.outcome.kind = "raise" =>
              h.outcome.errors = h.recorded /\ h.outcome.headline = Headline(h.op)
        /\ h.recorded = <<>> => h.outcome.kind = "return"

\* the number of offending nodes encode meets in a tree: the entries whose key
\* is no Key (their values are not visited) and the values that are no Text,
\* List or Dict
RECURSIVE Illegal(_)
RECURSIVE IllegalFrom(_, _)
IllegalFrom(nodes, i) ==
    IF i > Len(nodes) THEN 0
    ELSE IllegalFrom(nodes, i + 1)
         + (IF "type" \in DOMAIN nodes[i]
            THEN (IF nodes[i].type # "Key" THEN 1 ELSE Illegal(nodes[i].value))
            ELSE Illegal(nodes[i]))
Illegal(v) ==
    IF v.kind = "Bad" THEN 1
    ELSE IF v.kind = "Text" THEN 0
    ELSE IF v.kind = "List" THEN IllegalFrom(v.items, 1)
    ELSE IllegalFrom(v.entries, 1)

\* C12: encode raises the aggregated error if and only if the tree holds a
\* dict key that is no Key or a value that is no Text, List or Dict, with one
\* recorded error per offending key or value; a tree without such nodes
\* encodes without error.
C12_EncodeRejectsIllegal ==
    \A i \in 1..Len(history) :
        history[i].op = "encode" =>
            LET h == history[i]
                n == Illegal(h.arg)
            IN  /\ (h.outcome.kind = "raise") <=> (n > 0)
                /\ h.outcome.kind = "raise" => Len(h.outcome.errors) = n
                /\ n = 0 => h.outcome.kind = "return"

\* the outcome of the operation on a fresh engine
FreshOutcome(op, argument) ==
    IF op = "decode" THEN Decode(FreshEngine, argument).outcome
    ELSE IF op = "encode" THEN Encode(FreshEngine, argument).outcome
    ELSE IF op = "python" THEN Python(FreshEngine, argument).outcome
    ELSE FileFrom(FreshEngine, argument).outcome

\* decode is in a loop turn that it repeats without end
Diverging ==
    /\ pc = "decode"
    /\ InLoop(Engine, Top)
    /\ \/ Len(errors) >= MaxErrors
       \/ LET r == IF Top.kind = "dict" THEN DictTurn(Engine, Top)
                   ELSE ListTurn(Engine, Top)
          IN  r.raised = "" /\ r.m = Engine /\ r.frames = <<Top>>

\* C6: after any sequence of public operations on one engine, the outcome of
\* the next one (its result, its error list with the line-number prefixes, or
\* its termination) is the outcome of that call on a fresh engine.
C6_SameAsFresh ==
    /\ \A i \in 1..Len(history) :
          history[i].outcome = FreshOutcome(history[i].op, history[i].arg)
    /\ Diverging => FreshOutcome("decode", arg).kind = "diverges"

\* ------------------------------------------------------------------ the forms encode writes

\* encode of one Text under a key of a dict, or as an item of a list, the dict
\* or list nested up to MaxDepth arrays deep: every first byte the short
\* forms look at, keys with "=" in them, texts of no, one and more lines.
MaxDepth == 1

Markers == {TAB, HASH, LT, GT, LBRACKET, RBRACKET, LBRACE, RBRACE, SLASH, EQ}
FormKeys ==
    { <<>>, <<107>>, <<107, EQ>>, <<107, HASH>> } \cup { <<c, 107>> : c \in Markers }
FormLines ==
    { <<>>, << <<>> >>, << <<118>> >>, << <<97>>, <<98>> >>, << <<97, NL, 98>> >>,
      << <<>>, <<>> >>, << <<118, EQ>> >> }
    \cup { << <<c, 118>> >> : c \in Markers }

\* File{d: Dict{d: ... Dict{key: Text(lines)}}}, depth dicts deep
RECURSIVE DictTextValue(_, _, _)
DictTextValue(name, lines, depth) ==
    IF depth = 0 THEN <<Entry(name, FALSE, None, Text(lines, None))>>
    ELSE <<Entry(<<100>>, FALSE, None,
                 Dict(DictTextValue(name, lines, depth - 1), None, None))>>
DictTextTree(name, lines, depth) == File(DictTextValue(name, lines, depth), None, None)

\* File{k: List[List[... Text(lines)]]}, depth lists inside the first
RECURSIVE ListTextValue(_, _)
ListTextValue(lines, depth) ==
    IF depth = 0 THEN List(<<Text(lines, None)>>, None, None)
    ELSE List(<<ListTextValue(lines, depth - 1)>>, None, None)
ListTextTree(lines, depth) ==
    File(<<Entry(<<107>>, FALSE, None, ListTextValue(lines, depth))>>, None, None)

EncodeDictText ==
    /\ calls = 0
    /\ \E name \in FormKeys, lines \in FormLines, depth \in 0..MaxDepth :
          EncodeCall(DictTextTree(name, lines, depth))
EncodeListText ==
    /\ calls = 0
    /\ \E lines \in FormLines, depth \in 0..MaxDepth :
          EncodeCall(ListTextTree(lines, depth))

NextForms == EncodeDictText \/ EncodeListText

SpecForms == InitEngine /\ [][NextForms]_vars

\* the lines of a text in block form under the opener, one tab deeper
BlockForm(opener, lines, depth) ==
    <<Tabs(depth) \o opener>> \o [i \in 1..Len(lines) |-> Tabs(depth + 1) \o lines[i]]

\* the one line of a short form: the prefix, then the text's line if it has one
ShortForm(prefix, lines, depth) ==
    <<Tabs(depth) \o prefix \o (IF lines = <<>> THEN <<>> ELSE lines[1])>>

\* the openers of the arrays around the text
DictOpeners(depth) == [j \in 1..depth |-> Tabs(j - 1) \o <<LBRACE, 100, RBRACE>>]
ListOpeners(depth) ==
    <<<<LBRACKET, 107, RBRACKET>>>> \o [j \in 1..depth |-> Tabs(j) \o <<LBRACKET, RBRACKET>>]

\* C13: a dict entry whose value is a Text is written KEY=VALUE exactly when
\* the normalized Text has at most one line and the key is empty or neither
\* starts with tab # < > [ ] { } / nor contains =; otherwise <KEY> followed by
\* one line per text line at one more tab.
C13_DictTextForm ==
    \A name \in FormKeys, lines \in FormLines, depth \in 0..MaxDepth :
        \A i \in 1..Len(history) :
            (history[i].op = "encode" /\ history[i].arg = DictTextTree(name, lines, depth)) =>
                LET text == normalize(lines)
                    short == /\ Len(text) <= 1
                             /\ \/ name = <<>>
                                \/ /\ name[1] \notin Markers \ {EQ}
                                   /\ ~Contains(name, EQ)
                IN  history[i].outcome =
                        Returns("encode",
                                JoinLines(DictOpeners(depth) \o
                                    (IF short THEN ShortForm(name \o <<EQ>>, text, depth)
                                     ELSE BlockForm(<<LT>> \o name \o <<GT>>, text, depth))))

\* C13 witness: the key k= with a one-line text was written in block form
\* one dict deep
C13_Witness ==
    /\ Len(history) = 1
    /\ history[1].op = "encode"
    /\ history[1].arg = DictTextTree(<<107, EQ>>, << <<118>> >>, 1)
    /\ history[1].outcome.value =
          <<LBRACE, 100, RBRACE, NL, TAB, LT, 107, EQ, GT, NL, TAB, TAB, 118>>

\* C14: a list item that is a Text is written as the bare line (only the
\* indent when the Text is empty) exactly when the normalized Text is empty or
\* has a single line whose first byte is none of tab # < > [ ] { } / =;
\* otherwise <> followed by one line per text line at one more tab.
C14_ListTextForm ==
    \A lines \in FormLines, depth \in 0..MaxDepth :
        \A i \in 1..Len(history) :
            (history[i].op = "encode" /\ history[i].arg = ListTextTree(lines, depth)) =>
                LET text == normalize(lines)
                    short == \/ text = <<>>
                             \/ Len(text) = 1 /\ text[1][1] \notin Markers
                IN  history[i].outcome =
                        Returns("encode",
                                JoinLines(ListOpeners(depth) \o
                                    (IF short THEN ShortForm(<<>>, text, depth + 1)
                                     ELSE BlockForm(<<LT, GT>>, text, depth + 1))))

\* C14 witness: an item =v was written in block form two lists deep
C14_Witness ==
    /\ Len(history) = 1
    /\ history[1].op = "encode"
    /\ history[1].arg = ListTextTree(<< <<EQ, 118>> >>, 1)
    /\ history[1].outcome.value =
          <<LBRACKET, 107, RBRACKET, NL, TAB, LBRACKET, RBRACKET, NL,
            TAB, TAB, LT, GT, NL, TAB, TAB, TAB, EQ, 118>>

\* ------------------------------------------------------------------ file alone

\* file(mapping) on a fresh engine, the mapping of up to two items: a string
\* key (one with a newline in it) or a key of another kind, the values None,
\* strings, objects of another kind, lists of up to MaxItems of these and dicts
\* of one item.
PlainLeaves == { PNone, PStr(<<118>>), PStr(<<97, NL, 98>>), PStr(<<>>), PBad }
PlainItems(names, V) ==
    { PItem(name, v) : name \in names, v \in V }
    \cup { [PItem(<<>>, v) EXCEPT !.type = "other"] : v \in V }
PlainValues ==
    PlainLeaves
    \cup { PList(items) : items \in SeqsUpTo(PlainLeaves, MaxItems) }
    \cup { PDict(<<>>) }
    \cup { PDict(<<item>>) : item \in PlainItems({<<105>>}, PlainLeaves) }
PlainMappings ==
    { PDict(<<>>) }
    \cup { PDict(<<item>>) : item \in PlainItems({<<107>>, <<97, NL, 98>>}, PlainValues) }
    \cup { PDict(<<item, PItem(<<106>>, v)>>) :
             item \in PlainItems({<<107>>, <<97, NL, 98>>}, PlainValues),
             v \in PlainLeaves }

FileOfPlain == calls = 0 /\ \E mapping \in PlainMappings : FileCall(mapping)

NextPlain == FileOfPlain

SpecPlain == InitEngine /\ [][NextPlain]_vars

\* the tree a plain value stands for: None the empty Text, a string its
\* normalized Text, a sequence a List in the same order, a mapping a Dict in
\* insertion order
RECURSIVE Lowered(_)
Lowered(p) ==
    IF p.kind = "None" THEN Text(<<>>, None)
    ELSE IF p.kind = "str" THEN Text(normalize(<<p.v>>), None)
    ELSE IF p.kind = "list"
    THEN List([i \in 1..Len(p.items) |-> Lowered(p.items[i])], None, None)
    ELSE Dict([i \in 1..Len(p.entries) |->
                 Entry(p.entries[i].key, FALSE, None, Lowered(p.entries[i].value))],
              None, None)

\* the paths of the offending nodes of a plain value, in the order met: the
\* keys that are no strings (their values are not visited) and the values
\* that are neither None, string, sequence nor mapping
RECURSIVE Offending(_, _)
RECURSIVE OffendingFrom(_, _, _)
OffendingFrom(p, path, i) ==
    IF p.kind = "list"
    THEN IF i > Len(p.items) THEN <<>>
         ELSE Offending(p.items[i], Append(path, [sep |-> "[]", key |-> IntKey(i - 1)]))
              \o OffendingFrom(p, path, i + 1)
    ELSE IF i > Len(p.entries) THEN <<>>
         ELSE (IF p.entries[i].type # "str"
               THEN <<Append(path, [sep |-> "[]", key |-> OtherKey])>>
               ELSE Offending(p.entries[i].value,
                              Append(path, [sep |-> ".", key |-> StrKey(p.entries[i].key)])))
              \o OffendingFrom(p, path, i + 1)
Offending(p, path) ==
    IF p.kind = "Bad" THEN <<path>>
    ELSE IF p.kind \in {"list", "dict"} THEN OffendingFrom(p, path, 1)
    ELSE <<>>

\* C15: file maps None to the empty Text, a string to its normalized Text, a
\* sequence to a List in the same order and a mapping to a Dict (File at top
\* level) in insertion order; every non-string key and every value of another
\* kind records one error with its path, and when an error was recorded the
\* call raises the aggregated error and returns no tree.
C15_FromPlain ==
    \A i \in 1..Len(history) :
        (history[i].op = "file" /\ history[i].arg.kind = "dict") =>
            LET h == history[i]
                paths == Offending(h.arg, <<>>)
                tree == Lowered(h.arg)
            IN  IF paths = <<>>
                THEN h.outcome = Returns("file", File(tree.entries, None, None))
                ELSE /\ h.outcome.kind = "raise"
                     /\ h.outcome.value = <<>>
                     /\ Len(h.outcome.errors) = Len(paths)
                     /\ \A j \in 1..Len(paths) : h.outcome.errors[j].keys = paths[j]

\* ------------------------------------------------------------------ normalize alone

\* UTF8.normalize on sequences of up to MaxEntries byte strings of up to
\* MaxChunk bytes, each byte a letter or a newline.
MaxEntries == 3
MaxChunk == 2

RECURSIVE BytesOf(_)
BytesOf(n) ==
    IF n = 0 THEN { <<>> }
    ELSE BytesOf(n - 1) \cup { Append(b, c) : b \in BytesOf(n - 1), c \in {97, NL} }

NormalizeInputs == SeqsUpTo(BytesOf(MaxChunk), MaxEntries)

InitNormalize ==
    /\ SetEngineInit
    /\ pc = "idle"
    /\ stack = <<>>
    /\ arg \in NormalizeInputs
    /\ outcome = NoOutcome
    /\ branch = "init"
    /\ calls = 0
    /\ history = <<>>

\* utf8.normalize(None) on the argument, then once more on what it left
NormalizeCall ==
    /\ calls < 2
    /\ LET u == IF calls = 0 THEN arg ELSE outcome.value
       IN  Call("normalize", u,
                [m |-> Engine, outcome |-> Returns("normalize", normalize(u)),
                 recorded |-> <<>>])

NextNormalize == NormalizeCall

SpecNormalize == InitNormalize /\ [][NextNormalize]_vars

\* the position in normalize(X) of the first piece of entry i (1-based) when
\* every entry before it with k newlines has given k + 1 pieces
RECURSIVE PieceStart(_, _)
PieceStart(X, i) ==
    IF i = 1 THEN 1 ELSE PieceStart(X, i - 1) + Newlines(X[i - 1]) + 1

\* Y holds, for every entry of X with k newlines, k + 1 pieces in its place
\* that joined by newlines give the entry; an entry without newline is itself.
InPlace(X, Y) ==
    /\ Len(Y) = PieceStart(X, Len(X) + 1) - 1
    /\ \A i \in 1..Len(X) :
          LET from == PieceStart(X, i)
              to == from + Newlines(X[i])
          IN  to <= Len(Y) /\ JoinLines(SubSeq(Y, from, to)) = X[i]

NormalizePost(X, Y) ==
    /\ \A j \in 1..Len(Y) : ~Contains(Y[j], NL)
    /\ Y # << <<>> >>
    /\ JoinLines(Y) = JoinLines(X)

\* C10 as stated: after normalize(X) no entry holds a newline, X is not a
\* single zero-length entry, the joined bytes are those of X before, and every
\* entry with k newlines is replaced in place by k + 1 pieces, entries without
\* newline left untouched.  (Fails for X = [b""], whose only entry, without a
\* newline, is removed.)
C10_NormalizeAsStated ==
    \A i \in 1..Len(history) :
        history[i].op = "normalize" =>
            /\ NormalizePost(history[i].arg, history[i].outcome.value)
            /\ InPlace(history[i].arg, history[i].outcome.value)

\* C10 amended: after normalize(X) no entry holds a newline, X is not a single
\* zero-length entry and the joined bytes are those of X before; a single
\* zero-length entry becomes the empty sequence, and in every other X an entry
\* with k newlines is replaced in place by k + 1 pieces, entries without
\* newline left untouched.
C10_Normalize ==
    \A i \in 1..Len(history) :
        history[i].op = "normalize" =>
            LET X == history[i].arg
                Y == history[i].outcome.value
            IN  /\ NormalizePost(X, Y)
                /\ IF X = << <<>> >> THEN Y = <<>> ELSE InPlace(X, Y)

\* C10 witness: three entries with two newlines each have become nine entries
C10_Witness ==
    /\ Len(history) >= 1
    /\ history[1].op = "normalize"
    /\ history[1].arg = << <<NL, NL>>, <<NL, NL>>, <<NL, NL>> >>
    /\ Len(history[1].outcome.value) = 9

\* C11: normalize is idempotent: a second normalize leaves the sequence the
\* first one produced unchanged, entry for entry.
C11_NormalizeIdempotent ==
    \A i \in 2..Len(history) :
        (history[i].op = "normalize" /\ history[i].arg = history[i - 1].outcome.value)
            => history[i].outcome.value = history[i].arg

\* C11 witness: the second normalize has run on what the first made of two
\* entries that each held a newline
C11_Witness ==
    /\ Len(history) = 2
    /\ history[1].arg = << <<97, NL>>, <<NL, 97>> >>
    /\ history[2].arg = << <<97>>, <<>>, <<>>, <<97>> >>
    /\ history[2].outcome.value = history[2].arg

\* ------------------------------------------------------------------ decode: properties

\* a turn of the loop of _readDict or _readList
LoopTurn == ReadDictTurn \/ ReadListTurn

\* C4: every iteration of the dict and list parsing loops consumes at least
\* one input line (the line counter advances on every turn that goes on), so
\* decode terminates on every input.
C4_EveryTurnConsumes ==
    [][(LoopTurn /\ pc' = "decode") => count' > count]_vars

Closer(opener) ==
    IF opener = LT THEN GT ELSE IF opener = LBRACKET THEN RBRACKET ELSE RBRACE

\* The current line, at the indent of the scope, begins with "<", "[" or "{"
\* and is no well-formed opener: in a dict its last byte is not the matching
\* closer, in a list it is not exactly the pair.
MalformedOpener ==
    /\ pc = "decode"
    /\ InLoop(Engine, Top)
    /\ LET body == SliceFrom(line, Top.indent)
       IN  /\ body # <<>>
           /\ body[1] \in {LT, LBRACKET, LBRACE}
           /\ IF Top.kind = "dict" THEN body[Len(body)] # Closer(body[1])
              ELSE body # <<body[1], Closer(body[1])>>

MalformedText(opener) ==
    IF opener = LT THEN "malformed text opening"
    ELSE IF opener = LBRACKET THEN "malformed linear array opening"
    ELSE "malformed associative array opening"

\* C8: a line that begins with "<", "[" or "{" and is no well-formed opener
\* records exactly one malformed-opening error of the matching kind, installs
\* no entry or item, and is discarded: parsing resumes at the following line.
C8_MalformedOpenerDiscarded ==
    [][(MalformedOpener /\ LoopTurn) =>
          /\ Len(errors') = Len(errors) + 1
          /\ errors'[Len(errors')].msg.text = MalformedText(At(line, Top.indent))
          /\ Len(stack') = Len(stack)
          /\ stack'[Len(stack')].array = Top.array
          /\ next' > next]_vars

\* line n (1-based) of the input b
RECURSIVE LineOf(_, _)
LineOf(b, n) ==
    IF n <= 1 THEN Slice(b, 0, LineEnd(b, 0))
    ELSE LineOf(SliceFrom(b, LineEnd(b, 0) + 1), n - 1)

\* C9: an excess-indentation error carries the line number of the first line
\* of the run it stands for (a line of the input that starts with a tab), and
\* the count N of the run's lines when N > 1.
C9_ExcessNamesFirstLine ==
    \A i \in 1..Len(errors) :
        errors[i].msg.text = "excess indentation" =>
            /\ errors[i].msg.first >= 1
            /\ LineOf(arg, errors[i].msg.first) # <<>>
            /\ LineOf(arg, errors[i].msg.first)[1] = TAB
            /\ errors[i].msg.lines # 1

IsDuplicate(e, name) == e.msg.text = "duplicate key" /\ e.msg.key = name

\* the step installs an entry in a dict: the key it installs, and the entries
\* of that dict before the step
InstallsEntry ==
    /\ pc = "decode"
    /\ ReadDictTurn \/ ReadReturn
    /\ branch' \in {"short entry", "text entry", "dict entry: array"}
InstalledKey ==
    IF branch' = "short entry" THEN Slice(line, Top.indent, assign)
    ELSE IF branch' = "text entry" THEN OpenerKey(Engine, Top.indent)
    ELSE stack[Len(stack) - 1].key
InstalledIn ==
    IF branch' = "dict entry: array" THEN stack[Len(stack) - 1].array.entries
    ELSE Top.array.entries

\* C7: when decode installs a dict entry whose key is already present in the
\* dict being parsed, the step records a duplicate key error naming that key;
\* a decode that ends with such an error recorded raises the aggregated error
\* with it; the input k=v, k=w is rejected with a duplicate-key error for k.
C7_DuplicateKey ==
    /\ [][(InstallsEntry /\ HasKey(InstalledIn, InstalledKey)) =>
            \E i \in (Len(errors) + 1)..Len(errors') :
                IsDuplicate(errors'[i], InstalledKey)]_vars
    /\ [][DecodeReturn =>
            \A i \in 1..Len(errors) :
                errors[i].msg.text = "duplicate key" =>
                    /\ outcome'.kind = "raise"
                    /\ \E j \in 1..Len(outcome'.errors) : outcome'.errors[j] = errors[i]]_vars
    /\ [](pc = "idle" /\ arg = <<107, EQ, 118, NL, 107, EQ, 119>> =>
            /\ outcome.kind = "raise"
            /\ \E j \in 1..Len(outcome.errors) : IsDuplicate(outcome.errors[j], <<107>>))

\* C7 witness: decode of k=v, k=w has ended, rejected for the duplicate key k
C7_Witness ==
    /\ pc = "idle"
    /\ arg = <<107, EQ, 118, NL, 107, EQ, 119>>
    /\ outcome.kind = "raise"
    /\ \E j \in 1..Len(outcome.errors) : IsDuplicate(outcome.errors[j], <<107>>)

\* the number, in the input, of the line the engine holds
LineNumber == 1 + Newlines(SubSeq(arg, 1, next - 1 - Len(line)))

\* the engine is in a dict scope at a line of that scope, whose bytes after
\* the indent are body
DictLine == pc = "decode" /\ Top.kind = "dict" /\ InLoop(Engine, Top)
Body == SliceFrom(line, Top.indent)

\* the step records exactly one error, this message at the line the engine held
RecordsOne(text) ==
    /\ Len(errors') = Len(errors) + 1
    /\ SubSeq(errors', 1, Len(errors)) = errors
    /\ errors'[Len(errors')].msg.text = text
    /\ errors'[Len(errors')].count = LineNumber

\* decode of the input has ended, rejected with this one error at this line
RejectedWith(alacs, text, number) ==
    /\ pc = "idle"
    /\ arg = alacs
    /\ outcome.kind = "raise"
    /\ Len(outcome.errors) = 1
    /\ outcome.errors[1].msg.text = text
    /\ outcome.errors[1].count = number

\* C16: in a dict scope a blank line is accepted silently only when neither a
\* blank line nor a key comment is pending; while a key comment is pending it
\* records "blank line must precede key comment", otherwise while a blank is
\* pending "more than one blank line", one error at the line's own number; the
\* inputs (blank, blank, k=v) and (//c, blank, k=v) each give one error at
\* line 2.
C16_BlankLines ==
    /\ [][(DictLine /\ Body = <<>> /\ ReadDictTurn) =>
            IF Top.comment # None THEN RecordsOne("blank line must precede key comment")
            ELSE IF Top.blank # 0 THEN RecordsOne("more than one blank line")
            ELSE errors' = errors /\ stack'[Len(stack')].blank # 0]_vars
    /\ [](pc = "idle" /\ arg = <<NL, NL, 107, EQ, 118>> =>
            RejectedWith(arg, "more than one blank line", 2))
    /\ [](pc = "idle" /\ arg = <<SLASH, SLASH, 99, NL, NL, 107, EQ, 118>> =>
            RejectedWith(arg, "blank line must precede key comment", 2))

\* C16 witness: decode of (//c, blank, k=v) has ended with the one error for
\* the blank line at line 2
C16_Witness ==
    RejectedWith(<<SLASH, SLASH, 99, NL, NL, 107, EQ, 118>>,
                 "blank line must precede key comment", 2)

\* C17: in a dict scope a // line read while a key comment is pending records
\* "more than one key comment" at that line's number and is consumed, parsing
\* going on with the next line, so (//c, //c, k=v) is rejected with exactly
\* that one error at line 2; a line starting with a single / records
\* "malformed key comment".
C17_KeyComments ==
    /\ [][(DictLine /\ Len(Body) >= 2 /\ Body[1] = SLASH /\ Body[2] = SLASH
            /\ Top.comment # None /\ ReadDictTurn) =>
            RecordsOne("more than one key comment") /\ next' > next]_vars
    /\ [][(DictLine /\ Body # <<>> /\ Body[1] = SLASH
            /\ (Len(Body) < 2 \/ Body[2] # SLASH) /\ ReadDictTurn) =>
            RecordsOne("malformed key comment")]_vars
    /\ [](pc = "idle" /\ arg = <<SLASH, SLASH, 99, NL, SLASH, SLASH, 99, NL, 107, EQ, 118>> =>
            RejectedWith(arg, "more than one key comment", 2))

\* a _readDict call ends: the nested one returns to its caller, or the
\* outermost one to decode
DictScopeEnds == pc = "decode" /\ Top.kind = "dict" /\ (ReadReturn \/ DecodeReturn)

\* the errors the step recorded (decode, as it ends, hands them to its outcome)
Recorded ==
    LET after == IF pc' = "idle" THEN outcome'.errors ELSE errors'
    IN  SubSeq(after, Len(errors) + 1, Len(after))

Unclaimed ==
    { i \in 1..Len(Recorded) :
        Recorded[i].msg.text = "unclaimed key comment or blank line" }

\* C18: when a dict scope ends while a blank line or a key comment is still
\* pending, exactly one "unclaimed key comment or blank line" error is
\* recorded for that scope; none is recorded when nothing is pending.
C18_Unclaimed ==
    [][DictScopeEnds =>
          Cardinality(Unclaimed) =
              (IF Top.comment # None \/ Top.blank # 0 THEN 1 ELSE 0)]_vars

\* C18 witness: decode of ({k}, a blank line one tab deep, <>) has ended; the
\* nested scope ended at line 3 with its blank line unclaimed
C18_Witness ==
    RejectedWith(<<LBRACE, 107, RBRACE, NL, TAB, NL, LT, GT>>,
                 "unclaimed key comment or blank line", 3)

\* the _readDict call that installs the entry, before and after the step
Installer == IF branch' = "dict entry: array" THEN stack[Len(stack) - 1] ELSE Top
Installed == stack'[Len(stack')]

\* decode of the input has returned a File whose entries carry these keys,
\* blank_line_before flags and comment_before slots
ReturnedKeys(alacs, names, blanks, befores) ==
    /\ pc = "idle"
    /\ arg = alacs
    /\ outcome.kind = "return"
    /\ [i \in 1..Len(outcome.value.entries) |-> outcome.value.entries[i].key] = names
    /\ [i \in 1..Len(outcome.value.entries) |-> outcome.value.entries[i].blank] = blanks
    /\ [i \in 1..Len(outcome.value.entries) |-> outcome.value.entries[i].before] = befores

\* C19: when a dict entry (short, text, list or dict form) is installed, its
\* key gets blank_line_before = true exactly when a blank line is pending and
\* comment_before = the pending key comment (none when none is pending), and
\* both slots are empty afterwards: a blank line or key comment goes to the
\* entry that directly follows it and to no second one.
C19_PendingApplied ==
    /\ [][InstallsEntry =>
            /\ Installed.blank = 0
            /\ Installed.comment = None
            /\ ~HasKey(InstalledIn, InstalledKey) =>
                  LET e == Installed.array.entries[Len(Installed.array.entries)]
                  IN  /\ e.key = InstalledKey
                      /\ e.blank = (Installer.blank # 0)
                      /\ e.before = Installer.comment]_vars
    /\ [](pc = "idle" /\ arg = <<NL, 107, EQ, 118, NL, LT, GT>> =>
            ReturnedKeys(arg, << <<107>>, <<>> >>, <<TRUE, FALSE>>, <<None, None>>))
    /\ [](pc = "idle" /\ arg = <<SLASH, SLASH, 99, NL, LBRACE, 107, RBRACE, NL, LT, GT>> =>
            ReturnedKeys(arg, << <<107>>, <<>> >>, <<FALSE, FALSE>>,
                         <<Some(<< <<99>> >>), None>>))

\* C19 witness: decode of (a blank line, k=v, <>) has returned; k carries the
\* blank line, the entry after it none
C19_Witness ==
    ReturnedKeys(<<NL, 107, EQ, 118, NL, LT, GT>>, << <<107>>, <<>> >>,
                 <<TRUE, FALSE>>, <<None, None>>)


\* the input has a line with this number, at this indent and starting with "#"
HashLineAt(n, ind) ==
    /\ n <= Newlines(arg) + 1
    /\ Len(LineOf(arg, n)) > ind
    /\ SkipTabs(LineOf(arg, n), 0) = ind
    /\ At(LineOf(arg, n), ind) = HASH

\* the lines the step went past after the one it started at are all
\* continuation lines of a comment at this indent, and the line it stopped at
\* is none
SkipsContinuation(ind) ==
    /\ count' > count
    /\ \A n \in (count + 1)..(count' - 1) : SkipTabs(LineOf(arg, n), 0) > ind
    /\ tabs' <= ind

\* the entry under this key in the dict the step installed into
InstalledEntry ==
    LET es == Installed.array.entries
    IN  es[CHOOSE i \in 1..Len(es) : es[i].key = InstalledKey]

Illegals ==
    { i \in 1..Len(Recorded) :
        Recorded[i].msg.text = "illegal position for comment" }

\* decode of the input has returned a File with this comment_intro whose
\* values carry these comment_after slots
ReturnedComments(alacs, intro, afters) ==
    /\ pc = "idle"
    /\ arg = alacs
    /\ outcome.kind = "return"
    /\ outcome.value.intro = intro
    /\ [i \in 1..Len(outcome.value.entries) |-> outcome.value.entries[i].value.after]
           = afters

\* C20: in a dict scope at indent I a "#" line at indent I is accepted as the
\* first line of the scope, where it becomes the container's comment_intro,
\* and right after an entry's value, where it becomes that value's
\* comment_after; read at the start of a turn of the scope's loop (after the
\* intro, after a comment_after, after a blank line, after a key comment) it
\* records "illegal position for comment" once at its own number, installs
\* nothing, and is skipped together with its continuation lines.
C20_CommentPositions ==
    /\ [][(DictLine /\ Body # <<>> /\ Body[1] = HASH /\ ReadDictTurn) =>
            /\ RecordsOne("illegal position for comment")
            /\ SkipsContinuation(Top.indent)
            /\ Len(stack') = Len(stack)
            /\ Installed.array = Top.array]_vars
    /\ [][(pc = "decode" /\ Top.kind = "dict" /\ ReadEnter /\ tabs = indent
            /\ Len(line) > indent /\ At(line, indent) = HASH) =>
            /\ Installed.array.intro # None
            /\ Installed.array.intro[1][1] = SliceFrom(line, indent + 1)
            /\ SkipsContinuation(indent)
            /\ errors' = errors]_vars
    /\ [][(InstallsEntry /\ branch' = "dict entry: array" /\ tabs = Installer.indent
            /\ Len(line) > tabs /\ At(line, tabs) = HASH) =>
            /\ InstalledEntry.value.after # None
            /\ InstalledEntry.value.after[1][1] = SliceFrom(line, tabs + 1)
            /\ Illegals = {}]_vars
    /\ [][(InstallsEntry /\ branch' = "short entry"
            /\ HashLineAt(count + 1, Top.indent)) =>
            /\ InstalledEntry.value.after # None
            /\ InstalledEntry.value.after[1][1] =
                   SliceFrom(LineOf(arg, count + 1), Top.indent + 1)
            /\ Illegals = {}]_vars
    /\ [](pc = "idle" /\ arg = <<HASH, 99, NL, 107, EQ, 118, NL, HASH, 99>> =>
            ReturnedComments(arg, Some(<< <<99>> >>), <<Some(<< <<99>> >>)>>))
    /\ [](pc = "idle" /\ arg = <<HASH, 99, NL, HASH, 99, NL, 107, EQ, 118>> =>
            RejectedWith(arg, "illegal position for comment", 2))
    /\ [](pc = "idle" /\ arg = <<107, EQ, 118, NL, HASH, 99, NL, HASH, 99>> =>
            RejectedWith(arg, "illegal position for comment", 3))
    /\ [](pc = "idle" /\ arg = <<NL, HASH, 99, NL, 107, EQ, 118>> =>
            RejectedWith(arg, "illegal position for comment", 2))
    /\ [](pc = "idle" /\ arg = <<SLASH, SLASH, 99, NL, HASH, 99, NL, 107, EQ, 118>> =>
            RejectedWith(arg, "illegal position for comment", 2))

\* C20 witness: decode of (k=v, #c, #c) has ended; the first "#" line went to
\* the value, the second was rejected at line 3
C20_Witness ==
    RejectedWith(<<107, EQ, 118, NL, HASH, 99, NL, HASH, 99>>,
                 "illegal position for comment", 3)


\* ------------------------------------------------------------------ decode of a list

\* One list under the key k: the opener line, then up to MaxListLines lines
\* one or two tabs deep.
MaxListLines == 3

ListBodies ==
    { <<>>,                       \* an empty item
      <<97>>,                     \* a
      <<98>>,                     \* b
      <<HASH, 99>>,               \* #c
      <<SLASH, 99>>,              \* /c
      <<SLASH, SLASH, 99>>,       \* //c
      <<LBRACKET, RBRACKET>>,     \* []
      <<LBRACE, RBRACE>> }        \* {}

ListLines == { Tabs(n) \o body : n \in 1..2, body \in ListBodies }

RECURSIVE ListInputsOf(_)
ListInputsOf(n) ==
    IF n = 0 THEN { <<LBRACKET, 107, RBRACKET>> }
    ELSE { b \o <<NL>> \o l : b \in ListInputsOf(n - 1), l \in ListLines }

ListInputs == UNION { ListInputsOf(n) : n \in 0..MaxListLines }

NextDecodeList ==
    \/ calls = 0 /\ \E alacs \in ListInputs : DecodeCall(alacs)
    \/ ReadEnter
    \/ ReadDictTurn
    \/ ReadListTurn
    \/ ReadReturn
    \/ DecodeReturn

SpecDecodeList == InitEngine /\ [][NextDecodeList]_vars

ListLine == pc = "decode" /\ Top.kind = "list" /\ InLoop(Engine, Top)

\* the outermost _readDict is about to return, on this input, with these
\* items in the list under its first key
ItemsRead(alacs, items) ==
    /\ pc = "decode"
    /\ arg = alacs
    /\ Len(stack) = 1
    /\ Top.phase = "loop"
    /\ ~InLoop(Engine, Top)
    /\ Len(Top.array.entries) = 1
    /\ Top.array.entries[1].value.items = items

\* C21: in a list scope a "#" line read at the start of a turn (not the first
\* line of the scope, not the line right after an item) records "unattached
\* comment" and a line starting with "/" records "key comment in list
\* context", once, at the line's number; the line and its continuation lines
\* are skipped and the items are as before, so that the items around it keep
\* their order: ([k], a, /c, b) reads the items a, b with one error at line 3.
C21_ListComments ==
    /\ [][(ListLine /\ Body # <<>> /\ Body[1] \in {HASH, SLASH} /\ ReadListTurn) =>
            /\ RecordsOne(IF Body[1] = HASH THEN "unattached comment"
                          ELSE "key comment in list context")
            /\ SkipsContinuation(Top.indent)
            /\ Len(stack') = Len(stack)
            /\ Installed.array = Top.array]_vars
    /\ [](pc = "decode" /\ Len(stack) = 1 /\ Top.phase = "loop" /\ ~InLoop(Engine, Top)
            /\ arg = <<LBRACKET, 107, RBRACKET, NL, TAB, 97, NL, TAB, SLASH, 99,
                       NL, TAB, 98>> =>
            /\ ItemsRead(arg, <<Text(<< <<97>> >>, None), Text(<< <<98>> >>, None)>>)
            /\ Len(errors) = 1
            /\ errors[1].msg.text = "key comment in list context"
            /\ errors[1].count = 3)
    /\ [](pc = "idle" /\ arg = <<LBRACKET, 107, RBRACKET, NL, TAB, 97, NL, TAB, HASH, 99,
                                 NL, TAB, HASH, 99>> =>
            RejectedWith(arg, "unattached comment", 4))
    /\ [](pc = "idle" /\ arg = <<LBRACKET, 107, RBRACKET, NL, TAB, HASH, 99, NL, TAB, HASH, 99,
                                 NL, TAB, 98>> =>
            RejectedWith(arg, "unattached comment", 3))

\* C21 witness: ([k], a, /c, b) has been read to its end: the items a and b,
\* in this order, and the one error of line 3
C21_Witness ==
    /\ ItemsRead(<<LBRACKET, 107, RBRACKET, NL, TAB, 97, NL, TAB, SLASH, 99, NL, TAB, 98>>,
                 <<Text(<< <<97>> >>, None), Text(<< <<98>> >>, None)>>)
    /\ Len(errors) = 1


\* ------------------------------------------------------------------ YAML

SPACE == 32
ZERO == 48

\* b"%d" % n
RECURSIVE Decimal(_)
Decimal(n) ==
    IF n < 10 THEN <<ZERO + n>> ELSE Decimal(n \div 10) \o <<ZERO + (n % 10)>>

\* What YAML.encode has written so far, and the exception that ended it.
YamlOut(out) == [out |-> out, raised |-> ""]
YamlRaise(r, exception) == [r EXCEPT !.raised = exception]
YamlWrite(r, bytes) == IF r.raised # "" THEN r ELSE [r EXCEPT !.out = r.out \o bytes]

\* YAML._utf8: one line per entry, each behind the indent and the prefix
RECURSIVE YamlUtf8(_, _, _, _)
YamlUtf8(r, ind, prefix, lines) ==
    IF lines = <<>> THEN r
    ELSE YamlUtf8(YamlWrite(r, ind \o prefix \o Head(lines) \o <<NL>>),
                  ind, prefix, Tail(lines))

\* YAML._comment
YamlComment(r, ind, prefix, comment) ==
    IF comment = None THEN r
    ELSE YamlUtf8(r,
                  ind \o (IF prefix = <<BANG>> THEN <<HASH>>
                             ELSE <<HASH>> \o Decimal(Len(ind))),
                  prefix, normalize(comment[1]))

\* key.replace("\\", r"\\").replace('"', r"\"").replace("\t", r"\t")
RECURSIVE YamlEscape(_)
YamlEscape(name) ==
    IF name = <<>> THEN <<>>
    ELSE (IF Head(name) = 92 THEN <<92, 92>>
          ELSE IF Head(name) = 34 THEN <<92, 34>>
          ELSE IF Head(name) = TAB THEN <<92, 116>>
          ELSE <<Head(name)>>) \o YamlEscape(Tail(name))

\* the key argument of the writers: False (the file itself), True (a list
\* item), or the entry of a dict with its Key
YamlFalse == [type |-> "False"]
YamlTrue == [type |-> "True"]

\* YAML._key
YamlKey(r, ind, key, end) ==
    YamlWrite(r,
        ind
        \o (IF key.type = "False" THEN end
            ELSE IF key.type = "True" THEN <<45>> \o (IF end # <<>> THEN <<SPACE>> \o end ELSE <<>>)
            ELSE <<34>> \o YamlEscape(key.key) \o <<34, 58>>
                 \o (IF end # <<>> THEN <<SPACE>> \o end ELSE <<>>))
        \o <<NL>>)

\* YAML._text, on the normalized lines
YamlTextLines(r, ind, key, lines) ==
    IF lines # <<>> /\ lines[Len(lines)] = <<>>
    THEN YamlUtf8(YamlKey(r, ind, key, <<124, 50, 43>>), ind, <<SPACE, SPACE>>,
                  SubSeq(lines, 1, Len(lines) - 1))
    ELSE YamlUtf8(YamlKey(r, ind, key, <<124, 50, 45>>), ind, <<SPACE, SPACE>>,
                  lines)
YamlText(r, ind, key, value) == YamlTextLines(r, ind, key, normalize(value.lines))

\* the indent of what lies inside a container written under this key
YamlInside(ind, key) == IF key.type = "False" THEN ind ELSE ind \o <<SPACE>>

RECURSIVE YamlValue(_, _, _, _)
RECURSIVE YamlItems(_, _, _)
RECURSIVE YamlEntries(_, _, _)

\* YAML._list
YamlList(r, ind, key, alacs) ==
    IF alacs.items = <<>> THEN YamlKey(r, ind, key, <<LBRACKET, RBRACKET>>)
    ELSE IF key.type = "False" THEN YamlRaise(r, "AssertionError")
    ELSE YamlItems(YamlComment(YamlKey(r, ind, key, <<>>), ind \o <<SPACE>>,
                               <<105, 58>>, alacs.intro),
                   ind \o <<SPACE>>, alacs.items)

\* YAML._dict
YamlDict(r, ind, key, alacs) ==
    IF alacs.entries = <<>> THEN YamlKey(r, ind, key, <<LBRACE, RBRACE>>)
    ELSE YamlEntries(YamlComment(IF key.type = "False" THEN r ELSE YamlKey(r, ind, key, <<>>),
                                 YamlInside(ind, key), <<105, 58>>, alacs.intro),
                     YamlInside(ind, key), alacs.entries)

\* YAML._value
YamlValue(r, ind, key, alacs) ==
    IF r.raised # "" THEN r
    ELSE IF alacs.kind = "Text"
    THEN YamlComment(YamlText(r, ind, key, alacs), ind, <<97, 58>>, alacs.after)
    ELSE IF alacs.kind = "List"
    THEN YamlComment(YamlList(r, ind, key, alacs), ind, <<97, 58>>, alacs.after)
    ELSE IF alacs.kind = "Dict"
    THEN YamlComment(YamlDict(r, ind, key, alacs), ind, <<97, 58>>, alacs.after)
    ELSE YamlRaise(r, "ValueError")

\* for value in alacs: self._value(ind, True, value)
YamlItems(r, ind, items) ==
    IF items = <<>> \/ r.raised # "" THEN r
    ELSE YamlItems(YamlValue(r, ind, YamlTrue, Head(items)), ind, Tail(items))

\* one turn of the loop of YAML._dict: self._blank is Comment(), without a line
YamlEntry(r, ind, e) ==
    IF e.type # "Key" THEN YamlRaise(r, "AttributeError")
    ELSE YamlValue(YamlComment(IF e.blank THEN YamlComment(r, ind, <<98>>, Some(<<>>))
                               ELSE r,
                               ind, <<107, 58>>, e.before),
                   ind, e, e.value)

\* for key, value in alacs.items()
YamlEntries(r, ind, entries) ==
    IF entries = <<>> \/ r.raised # "" THEN r
    ELSE YamlEntries(YamlEntry(r, ind, Head(entries)), ind, Tail(entries))

\* YAML.encode
YamlEncode(alacs) ==
    YamlWrite(YamlDict(YamlComment(YamlOut(<<45, 45, 45, SPACE, BANG, 109, 97, 112, NL>>),
                                   <<>>, <<BANG>>, alacs.hashbang),
                       <<>>, YamlFalse, alacs),
              <<46, 46, 46, NL>>)

YamlResult(r) ==
    IF r.raised = "" THEN Returns("yaml_encode", r.out)
    ELSE Aborts("yaml_encode", r.raised)

\* YAML().encode(T) for a tree T
YamlEncodeCall ==
    /\ calls = 0
    /\ \E T \in Trees :
          Call("yaml_encode", T,
               [m |-> Engine, outcome |-> YamlResult(YamlEncode(T)), recorded |-> <<>>])

NextYaml == YamlEncodeCall

SpecYaml == InitEngine /\ [][NextYaml]_vars

\* the lines of the bytes b, each ended by a newline
RECURSIVE SplitLines(_)
SplitLines(b) ==
    IF b = <<>> THEN <<>>
    ELSE <<Slice(b, 0, LineEnd(b, 0))>> \o SplitLines(SliceFrom(b, LineEnd(b, 0) + 1))

StartsWith(b, prefix) == Len(b) >= Len(prefix) /\ SubSeq(b, 1, Len(prefix)) = prefix

\* the slots of a tree: hashbang "!", comment_intro "i:", comment_before "k:",
\* comment_after "a:", blank_line_before "b"
Slots == { <<BANG>>, <<105, 58>>, <<107, 58>>, <<97, 58>>, <<98>> }

One(condition) == IF condition THEN 1 ELSE 0

\* how many slots of this kind are filled at nesting d inside the container
\* v, whose own lines stand at nesting n
RECURSIVE FilledInside(_, _, _, _)
RECURSIVE FilledFrom(_, _, _, _, _)
FilledFrom(children, slot, d, n, i) ==
    IF i > Len(children) THEN 0
    ELSE LET x == children[i]
             entry == "value" \in DOMAIN x
             v == IF entry THEN x.value ELSE x
         IN  One(entry /\ d = n /\ slot = <<98>> /\ x.blank)
             + One(entry /\ d = n /\ slot = <<107, 58>> /\ x.before # None)
             + One(d = n /\ slot = <<97, 58>> /\ v.after # None)
             + (IF v.kind \in {"List", "Dict"} THEN FilledInside(v, slot, d, n + 1) ELSE 0)
             + FilledFrom(children, slot, d, n, i + 1)
FilledInside(v, slot, d, n) ==
    One(d = n /\ slot = <<105, 58>> /\ v.intro # None)
    + FilledFrom(IF v.kind = "List" THEN v.items ELSE v.entries, slot, d, n, 1)
Filled(file, slot, d) ==
    One(d = 0 /\ slot = <<BANG>> /\ file.hashbang # None) + FilledInside(file, slot, d, 0)

\* how many lines of the output are "#" lines of this slot at nesting d
Tagged(out, slot, d) ==
    LET lines == SplitLines(out)
        mark == [i \in 1..d |-> SPACE] \o <<HASH>>
                \o (IF slot = <<BANG>> THEN <<>> ELSE Decimal(d)) \o slot
    IN  Cardinality({ i \in 1..Len(lines) : StartsWith(lines[i], mark) })

\* C22: yaml_encode returns, and for every slot kind and nesting its output
\* holds at least as many "#" lines carrying that role tag and nesting number
\* as the tree has comments in that slot (hashbang, comment_intro,
\* comment_before, comment_after) or keys flagged blank_line_before there.
C22_YamlAnnotations ==
    (pc = "idle" /\ outcome.op = "yaml_encode") =>
        /\ outcome.kind = "return"
        /\ \A slot \in Slots, d \in 0..3 :
              Tagged(outcome.value, slot, d) >= Filled(arg, slot, d)


\* ------------------------------------------------------------------ the order encode writes in

\* Trees whose every key, comment and text line is one small letter of its
\* own: the hashbang y, the file's intro z, the first entry the letters from
\* a on, the second those from m on.
Maybe(letter) == { None, Some(<< <<letter>> >>) }

OrderTexts(b) ==
    { Text(l, a) : l \in { << <<b>> >>, << <<b>>, <<b + 1>> >> }, a \in Maybe(b + 2) }

OrderItems(b) ==
    { <<>>,
      <<Text(<< <<b + 3>> >>, None)>>,
      <<Text(<< <<b + 3>> >>, Some(<< <<b + 4>> >>)),
        List(<<Text(<< <<b + 5>> >>, None)>>, Some(<< <<b + 6>> >>), None)>> }

OrderInner(b) ==
    { <<>> } \cup
    { <<Entry(<<b + 3>>, blank, before, Text(<< <<b + 5>> >>, after))>> :
        blank \in BOOLEAN, before \in Maybe(b + 4), after \in Maybe(b + 6) }

OrderValues(b) ==
    OrderTexts(b)
    \cup { List(items, i, a) : items \in OrderItems(b), i \in Maybe(b + 1), a \in Maybe(b + 2) }
    \cup { Dict(es, i, a) : es \in OrderInner(b), i \in Maybe(b + 1), a \in Maybe(b + 2) }

OrderEntries(b, V) ==
    { Entry(<<b>>, blank, before, v) : blank \in BOOLEAN, before \in Maybe(b + 1), v \in V }

OrderTrees ==
    { File(es, h, i) :
        es \in { <<>> }
               \cup { <<e>> : e \in OrderEntries(97, OrderValues(99)) }
               \cup { <<e, f>> : e \in OrderEntries(97, OrderValues(99)),
                                 f \in OrderEntries(109, OrderTexts(111)) },
        h \in Maybe(121), i \in Maybe(122) }

EncodeOrdered == calls = 0 /\ \E T \in OrderTrees : EncodeCall(T)

NextOrder == EncodeOrdered

SpecOrder == InitEngine /\ [][NextOrder]_vars

\* the small letters of the bytes, in order
RECURSIVE LettersOf(_)
LettersOf(b) ==
    IF b = <<>> THEN <<>>
    ELSE (IF Head(b) >= 97 /\ Head(b) <= 122 THEN <<Head(b)>> ELSE <<>>)
         \o LettersOf(Tail(b))

\* what the lines of the output show, in order: 0 for a line that holds
\* nothing but its tabs, else the letters of the line
RECURSIVE Shown(_)
Shown(lines) ==
    IF lines = <<>> THEN <<>>
    ELSE (IF SkipTabs(Head(lines), 0) = Len(Head(lines)) THEN <<0>>
          ELSE LettersOf(Head(lines)))
         \o Shown(Tail(lines))

\* the lines of the bytes b, separated by newlines; no byte, no line
RECURSIVE SeparatedFrom(_)
SeparatedFrom(b) ==
    IF LineEnd(b, 0) >= Len(b) THEN <<b>>
    ELSE <<Slice(b, 0, LineEnd(b, 0))>> \o SeparatedFrom(SliceFrom(b, LineEnd(b, 0) + 1))
Separated(b) == IF b = <<>> THEN <<>> ELSE SeparatedFrom(b)

\* the order the tree's parts are to appear in
RECURSIVE InOrder(_)
RECURSIVE InOrderAll(_)
CommentInOrder(c) == IF c = None THEN <<>> ELSE LettersOf(JoinLines(c[1]))
InOrder(x) ==
    IF "value" \in DOMAIN x
    THEN (IF x.blank THEN <<0>> ELSE <<>>) \o CommentInOrder(x.before) \o LettersOf(x.key)
         \o InOrder(x.value)
    ELSE IF x.kind = "Text" THEN LettersOf(JoinLines(x.lines)) \o CommentInOrder(x.after)
    ELSE IF x.kind = "List"
    THEN CommentInOrder(x.intro) \o InOrderAll(x.items) \o CommentInOrder(x.after)
    ELSE IF x.kind = "Dict"
    THEN CommentInOrder(x.intro) \o InOrderAll(x.entries) \o CommentInOrder(x.after)
    ELSE CommentInOrder(x.hashbang) \o CommentInOrder(x.intro) \o InOrderAll(x.entries)
InOrderAll(xs) == IF xs = <<>> THEN <<>> ELSE InOrder(Head(xs)) \o InOrderAll(Tail(xs))

\* C23: the lines encode returns come in this order: the hashbang, the file's
\* comment_intro, then the entries in insertion order, each as its blank line
\* (if flagged), its key's comment_before, its key or opener line, the body
\* of its value (a container's comment_intro, then its items or entries in
\* order), the value's comment_after; all of one entry or item before
\* anything of the next.
C23_EncodeOrder ==
    (pc = "idle" /\ outcome.op = "encode") =>
        /\ outcome.kind = "return"
        /\ Shown(Separated(outcome.value)) = InOrder(arg)

\* C23 witness: encode has returned for a file with hashbang and intro whose
\* first entry has a blank line, a key comment and a list of two items with
\* intro and comment_after, followed by a second entry
C23_Witness ==
    /\ pc = "idle"
    /\ outcome.op = "encode"
    /\ outcome.kind = "return"
    /\ arg.hashbang # None
    /\ arg.intro # None
    /\ Len(arg.entries) = 2
    /\ arg.entries[1].blank
    /\ arg.entries[1].before # None
    /\ arg.entries[1].value.kind = "List"
    /\ Len(arg.entries[1].value.items) = 2
    /\ arg.entries[1].value.intro # None
    /\ arg.entries[1].value.after # None
    /\ arg.entries[2].blank


\* ------------------------------------------------------------------ _readln at the end of the input

\* C24: whenever the input is exhausted, a call of _readln answers false and
\* leaves the current line empty, tabs = -1 and assign = -1, whatever these
\* fields held; a second call answers false again and changes no field, and
\* the two calls together count at most one line.
C24_ReadlnAtEnd ==
    (pc = "decode" /\ next >= Len(parse)) =>
        /\ ~Readln(Engine).ok
        /\ Readln(Engine).m.line = <<>>
        /\ Readln(Engine).m.tabs = -1
        /\ Readln(Engine).m.assign = -1
        /\ ~Readln(Readln(Engine).m).ok
        /\ Readln(Readln(Engine).m).m = Readln(Engine).m
        /\ Readln(Readln(Engine).m).m.count <= count + 1


\* ------------------------------------------------------------------ pointer.Indent

\* The chain of pointer.Indent nodes is the sequence keys (the key of the node
\* at depth d is keys[d + 1]); indent is the depth of the node at hand.  Up to
\* MaxChain nodes below the root, MaxSteps calls; arg is the node a call was
\* made on and the keys of the chain at that moment.
MaxChain == 2
MaxSteps == 6

PointerKeys ==
    { StrKey(<<97>>), StrKey(<<98>>), StrKey(<<97, SLASH, 98>>), StrKey(<<126>>),
      IntKey(1) }

PointerStep(op) ==
    /\ pc = "idle"
    /\ calls < MaxSteps
    /\ calls' = calls + 1
    /\ branch' = op
    /\ arg' = [node |-> indent, keys |-> keys]
    /\ UNCHANGED <<scratch, errors, count, write, parse, next, line, lineIsEmpty,
                   tabs, assign, pc, stack, history>>

\* Indent.more: the deeper node is allocated with a null key, and an existing
\* one has its key nulled
PointerMore ==
    /\ indent < MaxChain
    /\ PointerStep("more")
    /\ indent' = indent + 1
    /\ keys' = IF Len(keys) < indent + 2 THEN Append(keys, None)
               ELSE [keys EXCEPT ![indent + 2] = None]
    /\ outcome' = Returns("more", indent + 1)

\* Indent.less
PointerLess ==
    /\ PointerStep("less")
    /\ indent' = IF indent = 0 THEN indent ELSE indent - 1
    /\ outcome' = IF indent = 0 THEN Aborts("less", "AssertionError")
                  ELSE Returns("less", indent - 1)
    /\ UNCHANGED keys

\* indent.key = key
PointerSetKey ==
    /\ PointerStep("key")
    /\ \E key \in PointerKeys : keys' = [keys EXCEPT ![indent + 1] = Some(key)]
    /\ UNCHANGED <<indent, outcome>>

\* A walk that nulls the key of the node it starts at and goes no further.
PointerZeroOne(ks, d) == [ks EXCEPT ![d + 1] = None]

\* the second loop of Indent.zero: from the node at depth d along _more to
\* the end of the chain, each key nulled
RECURSIVE PointerZeroKeys(_, _)
PointerZeroKeys(ks, d) ==
    IF d >= Len(ks) THEN ks
    ELSE PointerZeroKeys([ks EXCEPT ![d + 1] = None], d + 1)

\* Indent.zero: the first loop walks less() while the node has a length
PointerZero ==
    /\ PointerStep("zero")
    /\ indent' = 0
    /\ keys' = PointerZeroKeys(keys, 0)
    /\ outcome' = Returns("zero", 0)

\* Indent.path: the shallower nodes first; a root whose key is null writes
\* nothing; a string key is written as it is, any other key as str(key) with
\* "~" and "/" replaced
RECURSIVE PointerPathOf(_, _)
PointerPathOf(ks, d) ==
    LET cell == ks[d + 1]
        text == IF cell = None THEN <<78, 111, 110, 101>>
                ELSE IF cell[1].t = "str" THEN cell[1].v
                ELSE IF cell[1].t = "int" THEN Decimal(cell[1].v[1])
                ELSE <<126, 46, 46, 46>>
    IN  IF d > 0 THEN PointerPathOf(ks, d - 1) \o <<SLASH>> \o text
        ELSE IF cell = None THEN <<>>
        ELSE <<SLASH>> \o text

PointerPath ==
    /\ PointerStep("path")
    /\ outcome' = Returns("path", PointerPathOf(keys, indent))
    /\ UNCHANGED <<indent, keys>>

NextPointer ==
    \/ PointerMore
    \/ PointerLess
    \/ PointerSetKey
    \/ PointerZero
    \/ PointerPath

SpecPointer == InitEngine /\ [][NextPointer]_vars

\* C25: zero(), called on any node of the chain, returns the root, and
\* afterwards every node of the chain has a null key, the nodes deeper than
\* the one it was called on too; the chain has the nodes it had.
C25_Zero ==
    branch = "zero" =>
        /\ indent = 0
        /\ outcome = Returns("zero", 0)
        /\ Len(keys) = Len(arg.keys)
        /\ \A i \in 1..Len(keys) : keys[i] = None

\* C25 witness: zero() has returned from a call on a node below the root
\* that had a deeper node, both holding a key
C25_Witness ==
    /\ branch = "zero"
    /\ arg.node = 1
    /\ Len(arg.keys) = 3
    /\ \A i \in 2..3 : arg.keys[i] # None
    /\ \A i \in 1..3 : keys[i] = None

\* "~" as "~0" and "/" as "~1"
RECURSIVE Escaped(_)
Escaped(b) ==
    IF b = <<>> THEN <<>>
    ELSE (IF Head(b) = 126 THEN <<126, ZERO>>
          ELSE IF Head(b) = SLASH THEN <<126, ZERO + 1>>
          ELSE <<Head(b)>>) \o Escaped(Tail(b))

\* one "/"-prefixed segment per level, root first, each key escaped
RECURSIVE Segments(_, _)
Segments(ks, d) ==
    (IF d > 0 THEN Segments(ks, d - 1) ELSE <<>>)
    \o <<SLASH>>
    \o Escaped(IF ks[d + 1][1].t = "int" THEN Decimal(ks[d + 1][1].v[1]) ELSE ks[d + 1][1].v)

\* the chains of d + 1 nodes whose every key is set
RECURSIVE ChainsOf(_)
ChainsOf(d) ==
    IF d = 0 THEN { <<Some(key)>> : key \in PointerKeys }
    ELSE { Append(ks, Some(key)) : ks \in ChainsOf(d - 1), key \in PointerKeys }

\* C26: path() on a chain whose keys are all set renders one "/"-prefixed
\* segment per level from the root to the node at hand, "~" written as "~0"
\* and "/" as "~1" inside every key, and no other chain renders to the same
\* string.
C26_Path ==
    (branch = "path" /\ \A i \in 1..(indent + 1) : keys[i] # None) =>
        /\ outcome.value = Segments(keys, indent)
        /\ \A d \in 0..MaxChain : \A ks \in ChainsOf(d) :
              PointerPathOf(ks, d) = outcome.value =>
                  d = indent /\ ks = SubSeq(keys, 1, indent + 1)

\* ------------------------------------------------------------------ the depth of the indent

\* What the body of encode, python or file leaves before the finally clause
\* runs: the engine and the exception that ended the body, if any.
BodyOf(op, argument, m) ==
    IF op = "encode"
    THEN WriteDict(WriteComment(EncodeBegin(m), <<HASH, BANG>>, argument.hashbang),
                   argument)
    ELSE IF op = "python"
    THEN PythonValue(IndentZero([m EXCEPT !.errors = <<>>]), argument)
    ELSE Value(IndentZero([m EXCEPT !.errors = <<>>]), argument)

\* The body ran with matching more() and less(): it never stands above the
\* root, and it is back at the root when it ends without an exception.
Balanced(r) == r.m.indent >= 0 /\ (r.raised = "" => r.m.indent = 0)

\* C27: no step of decode, encode, python (to_plain) or file (from_plain)
\* takes the indent above the root, so the guard "indent can't go negative"
\* never fires: while decode runs the indent is the number of nested
\* _readDict/_readList calls that are open, each return of a nested call
\* undoes the more() of its opener, the body of encode, python and file ends
\* at the depth it started at, and whenever a call has ended, by return or
\* by exception, the indent is the root, every key of the chain is null and
\* the error list is empty.
C27_IndentBalanced ==
    [][ /\ indent' >= 0
        /\ pc' = "decode" => indent' = Len(stack') - 1
        /\ (pc = "decode" /\ pc' = "decode" /\ Len(stack') < Len(stack)) => indent >= 1
        /\ (calls' = calls + 1 /\ branch' \in {"encode", "python", "file"}) =>
               Balanced(BodyOf(branch', arg', Engine))
        /\ pc' = "idle" =>
               /\ indent' = 0
               /\ errors' = <<>>
               /\ \A i \in 1..Len(keys') : keys'[i] = None ]_vars

\* C27 witness: a call that was ended by an exception below the root (encode
\* inside a list, decode inside the text of a nested scope) or that had
\* recorded errors has ended, and the chain of the indent is deeper than the root.
C27_Witness ==
    /\ pc = "idle"
    /\ outcome.kind \in {"abort", "raise"}
    /\ Len(keys) >= 2
    /\ indent = 0
    /\ \A i \in 1..Len(keys) : keys[i] = None

\* ------------------------------------------------------------------ decode of what encode wrote

\* decode runs, or has ended, on the bytes the encode before it returned
DecodesEncoded ==
    /\ calls = 2
    /\ history # <<>>
    /\ history[1].op = "encode"
    /\ history[1].outcome.kind = "return"

\* C28: the bytes encode returns are never rejected by decode: while decode
\* reads them no error of any kind is recorded, and decode returns a File
\* (it neither raises the aggregated parse error nor is aborted).
C28_EncodedIsAccepted ==
    DecodesEncoded =>
        /\ pc = "decode" => errors = <<>>
        /\ (pc = "idle" /\ Len(history) = 2) =>
               /\ history[2].op = "decode"
               /\ history[2].arg = history[1].outcome.value
               /\ history[2].recorded = <<>>
               /\ outcome.kind = "return"

\* C28 witness: decode has returned on the bytes of a tree with two entries,
\* the second with a blank line and a key comment before it and a list as
\* value, the first a dict.
C28_Witness ==
    /\ DecodesEncoded
    /\ pc = "idle"
    /\ Len(history) = 2
    /\ outcome.kind = "return"
    /\ Len(history[1].arg.entries) = 2
    /\ history[1].arg.entries[1].value.kind = "Dict"
    /\ history[1].arg.entries[2].blank
    /\ history[1].arg.entries[2].before # None
    /\ history[1].arg.entries[2].value.kind = "List"

\* ------------------------------------------------------------------ duplicate keys, entry by entry

\* the duplicate-key errors the step records
DuplicatesRecorded ==
    { i \in (Len(errors) + 1)..Len(errors') : errors'[i].msg.text = "duplicate key" }

\* C29: a step of decode that installs a dict entry records a duplicate-key
\* error exactly when the key is already present in that dict (one error,
\* naming the key): an entry with a fresh key records none, also after a
\* duplicate entry of the same dict.
C29_DuplicateOnlyForRepeats ==
    [][InstallsEntry =>
          IF HasKey(InstalledIn, InstalledKey)
          THEN /\ Cardinality(DuplicatesRecorded) = 1
               /\ \A i \in DuplicatesRecorded : IsDuplicate(errors'[i], InstalledKey)
          ELSE DuplicatesRecorded = {}]_vars

\* ------------------------------------------------------------------ the round trip outside the hashbang case

\* The tree has a hashbang, or its file-level comment_intro is absent or does
\* not start with a line whose first byte is '!'.
FirstLineIsPlain(T) ==
    \/ T.hashbang # None
    \/ T.intro = None
    \/ normalize(T.intro[1]) = <<>>
    \/ normalize(T.intro[1])[1] = <<>>
    \/ normalize(T.intro[1])[1][1] # BANG

\* C30: for every tree T that has a hashbang, or whose file-level
\* comment_intro is absent or has a first line that does not start with '!',
\* decode(encode(T)) returns a tree equal to T in structure, key order, text
\* contents and every annotation (Text and Comment contents compared as
\* normalized line sequences), and the returned tree has a hashbang exactly
\* when T has one.
C30_RoundTripOutsideHashbang ==
    \A i \in 1..Len(history) :
        (Fed(i, "encode", "decode") /\ FirstLineIsPlain(history[i].arg)) =>
            /\ history[i + 1].outcome.kind = "return"
            /\ Canon(history[i + 1].outcome.value) = Canon(history[i].arg)
            /\ (history[i + 1].outcome.value.hashbang # None)
                   <=> (history[i].arg.hashbang # None)

\* C30 witness: decode has returned on the bytes of a tree that has a hashbang,
\* a comment_intro whose first line starts with '!' and an entry, with both
\* comments where they were.
C30_Witness ==
    /\ Len(history) = 2
    /\ Fed(1, "encode", "decode")
    /\ history[2].outcome.kind = "return"
    /\ history[1].arg.hashbang # None
    /\ history[1].arg.intro = Some(<< <<BANG, 120>> >>)
    /\ history[2].outcome.value.hashbang = history[1].arg.hashbang
    /\ history[2].outcome.value.intro = Some(<< <<BANG, 120>> >>)
    /\ history[1].arg.entries # <<>>

====
